---- MODULE Spec2Model ----
(***************************************************************************)
(* A model of the RTF stream extractor BasicRTF (IE1PD100944/basic_rtf.py) *)
(* of tibetan-etext-tools.  A document is a sequence of one-character      *)
(* strings; offsets are Python offsets (0-based), so At(d, k) reads d[k].  *)
(* Every iteration of parse_file's scan loop is one action.                *)
(***************************************************************************)
EXTENDS Integers, Sequences, FiniteSets, TLC

\* ------------------------------------------------------------ characters

Letters == {"a", "b", "c", "d", "e", "f", "g", "h", "i", "j", "k", "l", "m", "n", "o", "p", "q", "r", "s", "t", "u", "v", "w", "x", "y", "z", "A", "B", "C", "D", "E", "F", "G", "H", "I", "J", "K", "L", "M", "N", "O", "P", "Q", "R", "S", "T", "U", "V", "W", "X", "Y", "Z"}

Digits == {"0", "1", "2", "3", "4", "5", "6", "7", "8", "9"}

HexDigits == Digits \cup {"a", "b", "c", "d", "e", "f", "A", "B", "C", "D", "E", "F"}

\* the regex class \s, and the ' \n\r\t' of the special-block scan
Whitespace == {" ", "\n", "\r", "\t"}

DigitVal(c) ==
  CASE c = "0" -> 0 [] c = "1" -> 1 [] c = "2" -> 2 [] c = "3" -> 3 [] c = "4" -> 4
    [] c = "5" -> 5 [] c = "6" -> 6 [] c = "7" -> 7 [] c = "8" -> 8 [] c = "9" -> 9

NoMatch == -1

\* data[k], or "" past either end (a value in no character class)
At(d, k) == IF k >= 0 /\ k < Len(d) THEN d[k + 1] ELSE ""

\* d.startswith(s, k)
StartsWith(d, s, k) ==
  /\ k >= 0
  /\ k + Len(s) <= Len(d)
  /\ \A j \in 1..Len(s) : d[k + j] = s[j]

\* d[a:b] for 0 <= a
Slice(d, a, b) ==
  LET e == IF b < Len(d) THEN b ELSE Len(d)
  IN  IF e <= a THEN << >> ELSE SubSeq(d, a + 1, e)

\* end of the longest run of characters of class S that starts at k
RECURSIVE RunEnd(_, _, _)
RunEnd(d, k, S) == IF At(d, k) \in S THEN RunEnd(d, k + 1, S) ELSE k

\* int(d[a:b]) for a run of decimal digits
RECURSIVE ParseInt(_, _, _)
ParseInt(d, a, b) ==
  IF b <= a THEN 0 ELSE ParseInt(d, a, b - 1) * 10 + DigitVal(d[b])

\* the optional trailing \s? of the control-word patterns
OptWs(d, k) == IF At(d, k) \in Whitespace THEN k + 1 ELSE k

\* d.find(s): the first offset at which s occurs, or -1
Find(d, s) ==
  LET hits == {k \in 0..Len(d) : StartsWith(d, s, k)}
  IN  IF hits = {} THEN NoMatch
      ELSE CHOOSE k \in hits : \A h \in hits : k <= h

\* ------------------------------------------------------------ keywords

KW_fonttbl == <<"{", "\\", "f", "o", "n", "t", "t", "b", "l">>
KW_colortbl == <<"{", "\\", "c", "o", "l", "o", "r", "t", "b", "l">>
KW_stylesheet == <<"{", "\\", "s", "t", "y", "l", "e", "s", "h", "e", "e", "t">>
KW_info == <<"{", "\\", "i", "n", "f", "o">>
KW_listtable == <<"{", "\\", "l", "i", "s", "t", "t", "a", "b", "l", "e">>
KW_listoverridetable == <<"{", "\\", "l", "i", "s", "t", "o", "v", "e", "r", "r", "i", "d", "e", "t", "a", "b", "l", "e">>
KW_generator == <<"{", "\\", "*", "\\", "g", "e", "n", "e", "r", "a", "t", "o", "r">>
KW_rsidtbl == <<"{", "\\", "*", "\\", "r", "s", "i", "d", "t", "b", "l">>
KW_pgptbl == <<"{", "\\", "*", "\\", "p", "g", "p", "t", "b", "l">>
KW_mmathPr == <<"{", "\\", "m", "m", "a", "t", "h", "P", "r">>
KW_footer_grp == <<"{", "\\", "f", "o", "o", "t", "e", "r">>
KW_header_grp == <<"{", "\\", "h", "e", "a", "d", "e", "r">>
KW_footnote == <<"\\", "f", "o", "o", "t", "n", "o", "t", "e">>
KW_header == <<"\\", "h", "e", "a", "d", "e", "r">>
KW_footer == <<"\\", "f", "o", "o", "t", "e", "r">>
KW_pict == <<"\\", "p", "i", "c", "t">>
KW_u == <<"\\", "u">>
KW_f == <<"\\", "f">>
KW_af == <<"\\", "a", "f">>
KW_fs == <<"\\", "f", "s">>
KW_par == <<"\\", "p", "a", "r">>
KW_line == <<"\\", "l", "i", "n", "e">>
KW_cell == <<"\\", "c", "e", "l", "l">>
KW_row == <<"\\", "r", "o", "w">>
KW_loch == <<"\\", "l", "o", "c", "h">>
KW_hich == <<"\\", "h", "i", "c", "h">>
KW_dbch == <<"\\", "d", "b", "c", "h">>
KW_ltrch == <<"\\", "l", "t", "r", "c", "h">>
KW_rtlch == <<"\\", "r", "t", "l", "c", "h">>
KW_panose == <<"\\", "p", "a", "n", "o", "s", "e">>
KW_Dedris == <<"}", "D", "e", "d", "r", "i", "s">>
KW_entry_f == <<"{", "\\", "f">>

\* skip_sections, in list order
skip_sections ==
  << KW_fonttbl, KW_colortbl, KW_stylesheet, KW_info, KW_listtable,
     KW_listoverridetable, KW_generator, KW_rsidtbl, KW_pgptbl, KW_mmathPr,
     KW_footer_grp, KW_header_grp >>

\* special_keywords, in dict order, with the type each maps to
special_keywords ==
  << <<KW_footnote, "footnote">>, <<KW_header, "header">>,
     <<KW_footer, "footer">>, <<KW_pict, "pict">> >>

\* ------------------------------------------------------------ patterns
\* Each pattern is matched at offset k (re.match(data, k)) and answers the
\* offset where the match ends, or NoMatch.

\* \\<kw>(\d+)\s?   (kw includes the backslash)
ReNumbered(d, k, kw) ==
  LET s == k + Len(kw)
      e == RunEnd(d, s, Digits)
  IN  IF StartsWith(d, kw, k) /\ e > s THEN OptWs(d, e) ELSE NoMatch

\* the (\d+) group of a ReNumbered match
NumberedArg(d, k, kw) == ParseInt(d, k + Len(kw), RunEnd(d, k + Len(kw), Digits))

\* \\<kw>(?![a-zA-Z])\s?
ReWord(d, k, kw) ==
  IF StartsWith(d, kw, k) /\ At(d, k + Len(kw)) \notin Letters
  THEN OptWs(d, k + Len(kw)) ELSE NoMatch

\* _RE_UNICODE  \\u(-?\d+)\??
UnicodeDigitsStart(d, k) == IF At(d, k + 2) = "-" THEN k + 3 ELSE k + 2

RE_UNICODE(d, k) ==
  LET s == UnicodeDigitsStart(d, k)
      e == RunEnd(d, s, Digits)
  IN  IF StartsWith(d, KW_u, k) /\ e > s
      THEN (IF At(d, e) = "?" THEN e + 1 ELSE e)
      ELSE NoMatch

\* int(m.group(1)) of a _RE_UNICODE match
UnicodeArg(d, k) ==
  LET s == UnicodeDigitsStart(d, k)
      v == ParseInt(d, s, RunEnd(d, s, Digits))
  IN  IF At(d, k + 2) = "-" THEN 0 - v ELSE v

\* _RE_HEX_CHAR  \\'([0-9a-fA-F]{2})
RE_HEX_CHAR(d, k) ==
  IF /\ At(d, k) = "\\" /\ At(d, k + 1) = "'"
     /\ At(d, k + 2) \in HexDigits /\ At(d, k + 3) \in HexDigits
  THEN k + 4 ELSE NoMatch

RE_FONT_ID(d, k) == ReNumbered(d, k, KW_f)
RE_AFONT(d, k) == ReNumbered(d, k, KW_af)
RE_FONT_SIZE(d, k) == ReNumbered(d, k, KW_fs)

\* _RE_CHARSET  \\(loch|hich|dbch)(?![a-zA-Z])\s?
RE_CHARSET(d, k) ==
  IF ReWord(d, k, KW_loch) # NoMatch THEN ReWord(d, k, KW_loch)
  ELSE IF ReWord(d, k, KW_hich) # NoMatch THEN ReWord(d, k, KW_hich)
  ELSE ReWord(d, k, KW_dbch)

CharsetArg(d, k) ==
  IF StartsWith(d, KW_loch, k) THEN "loch"
  ELSE IF StartsWith(d, KW_hich, k) THEN "hich" ELSE "dbch"

\* _RE_DIRCTX  \\(ltrch|rtlch)(?![a-zA-Z])\s?
RE_DIRCTX(d, k) ==
  IF ReWord(d, k, KW_ltrch) # NoMatch THEN ReWord(d, k, KW_ltrch)
  ELSE ReWord(d, k, KW_rtlch)

DirctxArg(d, k) == IF StartsWith(d, KW_ltrch, k) THEN "ltrch" ELSE "rtlch"

RE_PAR(d, k) == ReWord(d, k, KW_par)
RE_LINE(d, k) == ReWord(d, k, KW_line)
RE_CELL(d, k) == ReWord(d, k, KW_cell)
RE_ROW(d, k) == ReWord(d, k, KW_row)

\* _RE_CONTROL_WORD  \\[a-zA-Z]+-?\d*\s?
RE_CONTROL_WORD(d, k) ==
  LET l == RunEnd(d, k + 1, Letters)
      m == IF At(d, l) = "-" THEN l + 1 ELSE l
  IN  IF At(d, k) = "\\" /\ l > k + 1
      THEN OptWs(d, RunEnd(d, m, Digits))
      ELSE NoMatch

\* The brace-counting loop shared by the font-table pre-pass, the metadata
\* skipper, the special-block scan and the ignorable-group skipper:
\*   while k < len(d) and brace_level > 0: ...; k += 1
RECURSIVE BraceScan(_, _, _)
BraceScan(d, k, level) ==
  IF k < Len(d) /\ level > 0
  THEN BraceScan(d, k + 1,
                 IF d[k + 1] = "{" THEN level + 1
                 ELSE IF d[k + 1] = "}" THEN level - 1 ELSE level)
  ELSE k

\* ------------------------------------------------------------ font table

\* detect_rtf_format: re.search(r'\\panose[^}]*\}Dedris', header); the first
\* closing brace after a \panose must open "}Dedris"
RECURSIVE FirstOf(_, _, _)
FirstOf(d, k, c) ==
  IF k >= Len(d) THEN NoMatch
  ELSE IF d[k + 1] = c THEN k ELSE FirstOf(d, k + 1, c)

detect_rtf_format(d) ==
  IF \E k \in 0..Len(d) :
       /\ StartsWith(d, KW_panose, k)
       /\ StartsWith(d, KW_Dedris, FirstOf(d, k + Len(KW_panose), "}"))
  THEN "complex" ELSE "simple"

\* _strip_nested_groups: keeps the first opening brace, drops every nested
\* group, keeps a closing brace met at level 0
RECURSIVE StripNestedFrom(_, _, _, _, _)
StripNestedFrom(text, k, level, first_brace_skipped, result) ==
  IF k >= Len(text) THEN result
  ELSE LET c == text[k + 1] IN
    IF c = "{" THEN
      IF ~first_brace_skipped
      THEN StripNestedFrom(text, k + 1, level, TRUE, Append(result, c))
      ELSE StripNestedFrom(text, k + 1, level + 1, TRUE, result)
    ELSE IF c = "}" THEN
      IF level > 0
      THEN StripNestedFrom(text, k + 1, level - 1, first_brace_skipped, result)
      ELSE StripNestedFrom(text, k + 1, level, first_brace_skipped, Append(result, c))
    ELSE IF level = 0
      THEN StripNestedFrom(text, k + 1, level, first_brace_skipped, Append(result, c))
      ELSE StripNestedFrom(text, k + 1, level, first_brace_skipped, result)

strip_nested_groups(text) == StripNestedFrom(text, 0, 0, FALSE, << >>)

\* re.sub(r'\\[a-zA-Z]+\-?\d*\s?', '', text)
RECURSIVE RemoveControlWords(_, _)
RemoveControlWords(text, k) ==
  IF k >= Len(text) THEN << >>
  ELSE IF RE_CONTROL_WORD(text, k) # NoMatch
       THEN RemoveControlWords(text, RE_CONTROL_WORD(text, k))
       ELSE << text[k + 1] >> \o RemoveControlWords(text, k + 1)

\* text.replace('{', '').replace('}', '')
RemoveBraces(text) == SelectSeq(text, LAMBDA c : c \notin {"{", "}"})

\* str.strip()
RECURSIVE Strip(_)
Strip(s) ==
  IF s = << >> THEN s
  ELSE IF Head(s) \in Whitespace THEN Strip(Tail(s))
  ELSE IF s[Len(s)] \in Whitespace THEN Strip(SubSeq(s, 1, Len(s) - 1))
  ELSE s

\* EntryName with the cut at ';' forgotten
EntryName_NoSplit(cleaned) == Strip(cleaned)

\* cleaned.split(';')[0] when ';' occurs, else cleaned; then strip()
EntryName(cleaned) ==
  LET semi == FirstOf(cleaned, 0, ";")
  IN  Strip(IF semi = NoMatch THEN cleaned ELSE Slice(cleaned, 0, semi))

\* the offset of the font-id digits of an entry, or NoMatch:
\* simple  re.match(r'\{\\f(\d+)', entry); complex  re.search(r'\\f(\d+)', entry)
EntryIdAt(entry, complex) ==
  IF complex
  THEN LET hits == {k \in 0..Len(entry) :
                      StartsWith(entry, KW_f, k) /\ At(entry, k + 2) \in Digits}
       IN  IF hits = {} THEN NoMatch
           ELSE 2 + (CHOOSE k \in hits : \A h \in hits : k <= h)
  ELSE IF StartsWith(entry, KW_entry_f, 0) /\ At(entry, 3) \in Digits
       THEN 3 ELSE NoMatch

\* the fonts one top-level entry contributes: none, or one {id, name}
EntryFonts(entry, complex) ==
  LET at == EntryIdAt(entry, complex)
      name == EntryName(RemoveBraces(RemoveControlWords(strip_nested_groups(entry), 0)))
  IN  IF at # NoMatch /\ name # << >>
      THEN << [id |-> ParseInt(entry, at, RunEnd(entry, at, Digits)), name |-> name] >>
      ELSE << >>

\* _parse_font_table_simple / _parse_font_table_complex: the loop over the
\* characters of the font table, cutting one entry per top-level group
RECURSIVE FontEntries(_, _, _, _, _, _)
FontEntries(fd, k, brace_level, entry_start, fonts, complex) ==
  IF k >= Len(fd) THEN fonts
  ELSE LET c == fd[k + 1] IN
    IF c = "{" THEN
      FontEntries(fd, k + 1, brace_level + 1,
                  IF brace_level = 0 THEN k ELSE entry_start, fonts, complex)
    ELSE IF c = "}" THEN
      IF brace_level - 1 = 0 /\ entry_start >= 0
      THEN FontEntries(fd, k + 1, 0, -1,
                       fonts \o EntryFonts(Slice(fd, entry_start, k + 1), complex),
                       complex)
      ELSE FontEntries(fd, k + 1, brace_level - 1, entry_start, fonts, complex)
    ELSE FontEntries(fd, k + 1, brace_level, entry_start, fonts, complex)

parse_font_table_simple(fd) == FontEntries(fd, 0, 0, -1, << >>, FALSE)
parse_font_table_complex(fd) == FontEntries(fd, 0, 0, -1, << >>, TRUE)

\* BasicRTF._parse_font_table: the list self._fonts
parse_font_table(d, fmt) ==
  LET start == Find(d, KW_fonttbl)
      e == BraceScan(d, start + 9, 1)
      fonttbl_data == Slice(d, start + 9, e - 1)
  IN  IF start = NoMatch THEN << >>
      ELSE IF fmt = "complex" THEN parse_font_table_complex(fonttbl_data)
      ELSE parse_font_table_simple(fonttbl_data)

\* self._font_map = {f["id"]: f for f in fonts}: the last entry of an id wins
FontMapOf(fonts) ==
  [fid \in {fonts[n].id : n \in DOMAIN fonts} |->
     LET last == CHOOSE n \in DOMAIN fonts :
                   /\ fonts[n].id = fid
                   /\ \A m \in DOMAIN fonts : fonts[m].id = fid => m <= n
     IN  fonts[last].name]

\* self._font_map.get(fid, {}).get("name", "")
FontName(fmap, fid) == IF fid \in DOMAIN fmap THEN fmap[fid] ELSE << >>

\* ------------------------------------------------------------ decoding

\* the characters of code points 32..126, in order
Ascii == <<" ", "!", "\"", "#", "$", "%", "&", "'", "(", ")", "*", "+", ",", "-", ".", "/", "0", "1", "2", "3", "4", "5", "6", "7", "8", "9", ":", ";", "<", "=", ">", "?", "@", "A", "B", "C", "D", "E", "F", "G", "H", "I", "J", "K", "L", "M", "N", "O", "P", "Q", "R", "S", "T", "U", "V", "W", "X", "Y", "Z", "[", "\\", "]", "^", "_", "U+96", "a", "b", "c", "d", "e", "f", "g", "h", "i", "j", "k", "l", "m", "n", "o", "p", "q", "r", "s", "t", "u", "v", "w", "x", "y", "z", "{", "|", "}", "~">>

\* chr(n) for a valid code point: the character itself for the ones a
\* document is written with here, and the name U+<n> for every other one
Chr(n) ==
  IF n >= 32 /\ n <= 126 THEN Ascii[n - 31]
  ELSE IF n = 9 THEN "\t"
  ELSE IF n = 10 THEN "\n"
  ELSE IF n = 13 THEN "\r"
  ELSE "U+" \o ToString(n)

HexVal(c) ==
  IF c \in Digits THEN DigitVal(c)
  ELSE IF c \in {"a", "A"} THEN 10
  ELSE IF c \in {"b", "B"} THEN 11
  ELSE IF c \in {"c", "C"} THEN 12
  ELSE IF c \in {"d", "D"} THEN 13
  ELSE IF c \in {"e", "E"} THEN 14
  ELSE 15

\* UnicodeChar with N taken as it is written, negative values included
UnicodeChar_Unsigned(n) ==
  IF n >= 0 /\ n <= 1114111 THEN Chr(n) ELSE "?"

\* the character \uN appends: N is taken as signed 16-bit (negative values
\* get 0x10000 added); chr() raising is answered with '?'
UnicodeChar(n) ==
  LET codepoint == IF n < 0 THEN n + 65536 ELSE n
  IN  IF codepoint >= 0 /\ codepoint <= 1114111 THEN Chr(codepoint) ELSE "?"

\* bytes.fromhex(hh).decode('latin1')
HexChar(d, k) == Chr(16 * HexVal(At(d, k + 2)) + HexVal(At(d, k + 3)))

\* BasicRTF._clean_text
clean_text(text) == SelectSeq(text, LAMBDA c : c \notin {"\r", "\n"})

\* ------------------------------------------------------------ state

VARIABLES
  data,        \* the text of the file parse_file reads
  pc,          \* "start", "scan" (inside the while loop) or "done"
  parses,      \* how many times parse_file was called on the object
  branch,      \* the branch the iteration at i takes ("eof": the loop ends)
  format,      \* self._format
  fonts,       \* self._fonts
  font_map,    \* self._font_map, as id -> name
  colors,      \* self._colors
  streams,     \* self._streams
  i,           \* the scan position
  font_size, charset, dirctx, eff,    \* the formatting state
  stack,       \* the scope stack: frames <<font_size, charset, dirctx, eff>>
  text_parts,  \* the pending run buffer
  char_start, char_end,
  \* history variables: what the program did, kept for the properties
  parts_g,     \* per character of text_parts: <<source offset, font id, font_size, character>>
  runs_g,      \* per stream: the parts_g entries of the characters of its text
  snap,        \* per consumed offset: << state before, state after, branch,
               \* start, rest before, rest after >> of the iteration that
               \* consumed it (rest: << stack depth, text_parts, stream count >>)
  last,        \* the previous iteration: its branch, where it started, and the
               \* pending text, font id and stream count it started with
  old,         \* the state of an object of the older parser
               \* (src/IE00EGS1016703/basic_rtf.py)
  fix          \* the last call of a function of tibetan_text_fixes.py: the
               \* function, its argument and its result

vars == << data, pc, parses, branch, format, fonts, font_map, colors, streams, i, font_size, charset,
           dirctx, eff, stack, text_parts, char_start, char_end,
           parts_g, runs_g, snap, last, old, fix >>

DefaultFontSize == 24

EffInit == [d \in {"ltrch", "rtlch"} |-> [c \in {"loch", "hich", "dbch"} |-> 0]]

\* get_fid()
get_fid == eff[dirctx][charset]

\* the formatting state a scope frame snapshots
State == << font_size, charset, dirctx, eff >>

\* the dict every flush appends
TextRun(text, cs, ce) ==
  [ text |-> text,
    font |-> [id |-> get_fid, name |-> FontName(font_map, get_fid),
              size |-> font_size \div 2],
    char_start |-> cs, char_end |-> ce ]

Break(type, cs, ce) == [type |-> type, char_start |-> cs, char_end |-> ce]

IsRun(s) == "type" \notin DOMAIN s
IsBreak(s) == "type" \in DOMAIN s /\ "text" \notin DOMAIN s
IsSpecial(s) == "type" \in DOMAIN s /\ "text" \in DOMAIN s

\* "if text_parts: text = clean(...); if text: append(...)": a run is emitted
Emits == text_parts # << >> /\ clean_text(text_parts) # << >>

\* self._streams after the pending text is flushed with char_end = end
FlushedStreams(end) ==
  IF Emits THEN Append(streams, TextRun(clean_text(text_parts), char_start, end))
  ELSE streams

FlushedCharEnd(end) == IF Emits THEN end ELSE char_end

FlushedRunsG ==
  IF Emits
  THEN Append(runs_g, SelectSeq(parts_g, LAMBDA g : g[4] \notin {"\r", "\n"}))
  ELSE runs_g

\* the history entry of a character buffered from offset k
Part(k, ch) == << k, get_fid, font_size, ch >>

\* ------------------------------------------------------------ branches

\* the first entry of skip_sections the text at k starts with (0: none)
SkipSectionAt(d, k) ==
  LET hits == {n \in DOMAIN skip_sections : StartsWith(d, skip_sections[n], k)}
  IN  IF hits = {} THEN 0 ELSE CHOOSE n \in hits : \A h \in hits : n <= h

\* the first entry of special_keywords that matches whole at k (0: none):
\* the keyword is not followed by an alphanumeric character
SpecialAt(d, k) ==
  LET hits == {n \in DOMAIN special_keywords :
                 /\ StartsWith(d, special_keywords[n][1], k)
                 /\ At(d, k + Len(special_keywords[n][1])) \notin (Letters \cup Digits)}
  IN  IF hits = {} THEN 0 ELSE CHOOSE n \in hits : \A h \in hits : n <= h

\* j: the offset after the keyword and the blanks that follow it
SpecialBrace(d, k) ==
  RunEnd(d, k + Len(special_keywords[SpecialAt(d, k)][1]), {" ", "\n", "\r", "\t"})

IgnoreGroupAt(d, k) ==
  At(d, k) = "{" /\ k + 2 < Len(d) /\ At(d, k + 1) = "\\" /\ At(d, k + 2) = "*"

EscapedSymbolAt(d, k) ==
  At(d, k) = "\\" /\ At(d, k + 1) \in {"{", "}", "\\"}

\* The branch one iteration of the scan loop takes at offset k, in the order
\* the loop tests them.
Branch(d, k) ==
  LET c == At(d, k) IN
  IF SkipSectionAt(d, k) # 0 THEN "skip_section"
  ELSE IF c = "\\" /\ SpecialAt(d, k) # 0 THEN
         (IF At(d, SpecialBrace(d, k)) = "{" THEN "special_block" ELSE "special_keyword")
  ELSE IF IgnoreGroupAt(d, k) THEN "ignore_group"
  ELSE IF c = "{" THEN "open"
  ELSE IF c = "}" THEN "close"
  ELSE IF c = "\\" THEN
         (IF RE_UNICODE(d, k) # NoMatch THEN "unicode"
          ELSE IF StartsWith(d, <<"\\", "~">>, k) THEN "nbsp"
          ELSE IF StartsWith(d, <<"\\", "-">>, k) THEN "hyphen"
          ELSE IF EscapedSymbolAt(d, k) THEN "escaped"
          ELSE IF RE_HEX_CHAR(d, k) # NoMatch THEN "hex"
          ELSE IF RE_DIRCTX(d, k) # NoMatch THEN "dirctx"
          ELSE IF RE_CHARSET(d, k) # NoMatch THEN "charset"
          ELSE IF RE_AFONT(d, k) # NoMatch THEN "afont"
          ELSE IF RE_FONT_ID(d, k) # NoMatch THEN "font_id"
          ELSE IF RE_FONT_SIZE(d, k) # NoMatch THEN "font_size"
          ELSE IF RE_PAR(d, k) # NoMatch THEN "par"
          ELSE IF RE_LINE(d, k) # NoMatch THEN "line"
          ELSE IF RE_CELL(d, k) # NoMatch THEN "cell"
          ELSE IF RE_ROW(d, k) # NoMatch THEN "row"
          ELSE IF RE_CONTROL_WORD(d, k) # NoMatch THEN "control_word"
          ELSE "backslash")
  ELSE "char"

\* the branch at offset k, or "eof" when the loop condition k < len(data) fails
BranchAt(d, k) == IF k < Len(d) THEN Branch(d, k) ELSE "eof"

\* the loop is at an iteration that takes branch b
At_(b) == pc = "scan" /\ branch = b

\* what every iteration records: call it last, after the program variables
History(b) ==
  /\ snap' = snap \o [k \in 1..(i' - i) |->
                        << State, State', b, i,
                           << Len(stack), text_parts, Len(streams) >>,
                           << Len(stack'), text_parts', Len(streams') >> >>]
  /\ last' = [op |-> b, at |-> i, pend |-> clean_text(text_parts),
               fid |-> get_fid, n |-> Len(streams)]
  /\ branch' = BranchAt(data, i')
  /\ UNCHANGED << old, fix >>

tables == << data, parses, format, fonts, font_map, colors >>
formatting == << font_size, charset, dirctx, eff >>
pending == << text_parts, parts_g, char_start, char_end >>
emitted == << streams, runs_g >>

\* ------------------------------------------------------------ documents

\* the pieces documents are put together from
Frags ==
  { <<"{">>,
    <<"}">>,
    <<"a">>,
    <<"\n">>,
    <<"\\", "f", "1", " ">>,
    <<"\\", "f", "s", "2", "0", " ">>,
    <<"\\", "h", "i", "c", "h", " ">>,
    <<"\\", "r", "t", "l", "c", "h", " ">>,
    <<"\\", "a", "f", "2", " ">>,
    <<"\\", "p", "a", "r", " ">>,
    <<"\\", "f", "o", "o", "t", "n", "o", "t", "e">>,
    <<"{", "\\", "i", "n", "f", "o">>,
    <<"{", "\\", "*">>,
    <<"\\", "}">>,
    <<"\\", "b", " ">>,
    <<"\\">> }

\* named documents: the scenarios of the specification and of the properties
\* the end-to-end scenario:  {\fonttbl{\f0\fnil Body;}}{\f0\fs20 Hello\par World}
Doc_EndToEnd ==
  <<"{", "\\", "f", "o", "n", "t", "t", "b", "l", "{", "\\", "f", "0", "\\", "f", "n", "i", "l", " ", "B", "o", "d", "y", ";", "}", "}", "{", "\\", "f", "0", "\\", "f", "s", "2", "0", " ", "H", "e", "l", "l", "o", "\\", "p", "a", "r", " ", "W", "o", "r", "l", "d", "}">>

\* run splitting, with the font table 1 -> A, 2 -> B:  {\fonttbl{\f1 A;}{\f2 B;}}\f1 abc\f2 def
Doc_RunSplit ==
  <<"{", "\\", "f", "o", "n", "t", "t", "b", "l", "{", "\\", "f", "1", " ", "A", ";", "}", "{", "\\", "f", "2", " ", "B", ";", "}", "}", "\\", "f", "1", " ", "a", "b", "c", "\\", "f", "2", " ", "d", "e", "f">>

\* the escapes and the breaks:  \u65?\'41\~\-\line \cell \row x\\\{\dbch\f3 y
Doc_Escapes ==
  <<"\\", "u", "6", "5", "?", "\\", "'", "4", "1", "\\", "~", "\\", "-", "\\", "l", "i", "n", "e", " ", "\\", "c", "e", "l", "l", " ", "\\", "r", "o", "w", " ", "x", "\\", "\\", "\\", "{", "\\", "d", "b", "c", "h", "\\", "f", "3", " ", "y">>

\* a footnote written as a group:  {\footnote a}
Doc_GroupFootnote ==
  <<"{", "\\", "f", "o", "o", "t", "n", "o", "t", "e", " ", "a", "}">>

\* a footnote in the middle of a run:  a\footnote{x}b
Doc_FootnoteMidText ==
  <<"a", "\\", "f", "o", "o", "t", "n", "o", "t", "e", "{", "x", "}", "b">>

\* an escaped brace inside a footnote, inside a group:  {\fs20 \footnote{a\}b}c}
Doc_BraceInFootnote ==
  <<"{", "\\", "f", "s", "2", "0", " ", "\\", "f", "o", "o", "t", "n", "o", "t", "e", "{", "a", "\\", "}", "b", "}", "c", "}">>

\* an escaped brace inside a skipped destination:  {\info a\}b}c
Doc_BraceInInfo ==
  <<"{", "\\", "i", "n", "f", "o", " ", "a", "\\", "}", "b", "}", "c">>

\* a header group, then a picture:  {\header{a}}\pict {b{c}}
Doc_HeaderGroup ==
  <<"{", "\\", "h", "e", "a", "d", "e", "r", "{", "a", "}", "}", "\\", "p", "i", "c", "t", " ", "{", "b", "{", "c", "}", "}">>

\* nested groups that change the state:  a{\f1 b{\fs20\hich\f2 c}d<LF>}e
Doc_Nested ==
  <<"a", "{", "\\", "f", "1", " ", "b", "{", "\\", "f", "s", "2", "0", "\\", "h", "i", "c", "h", "\\", "f", "2", " ", "c", "}", "d", "\n", "}", "e">>

\* a text run, a break and a special block:  a\par \pict {x}b\row
Doc_AllKinds ==
  <<"a", "\\", "p", "a", "r", " ", "\\", "p", "i", "c", "t", " ", "{", "x", "}", "b", "\\", "r", "o", "w", " ">>

\* a group whose only content is the three escaped symbols:  {\{\}\\}
Doc_LiteralEscapes ==
  <<"{", "\\", "{", "\\", "}", "\\", "\\", "}">>

\* hex escapes, two of them line terminators:  a\'0ab\'41\'0dc
Doc_HexNewline ==
  <<"a", "\\", "'", "0", "a", "b", "\\", "'", "4", "1", "\\", "'", "0", "d", "c">>

\* unicode escapes with the values 9, -1, -32768, 65535, 1114112 and -70000
Doc_Unicode ==
  <<"\\", "u", "9", "\\", "u", "-", "1", "?", "\\", "u", "-", "3", "2", "7", "6", "8", "\\", "u", "6", "5", "5", "3", "5", "\\", "u", "1", "1", "1", "4", "1", "1", "2", "\\", "u", "-", "7", "0", "0", "0", "0", "?", "x">>

\* unicode escapes with a hex pair and with a letter as fallback:
\* \u65\'41b\u66c
Doc_UnicodeFallback ==
  <<"\\", "u", "6", "5", "\\", "'", "4", "1", "b", "\\", "u", "6", "6", "c">>

\* a color table with an empty entry, a full one and a partial one:
\* {\colortbl;\red255\green0\blue0;\blue7;}abc
Doc_ColorTable ==
  <<"{", "\\", "c", "o", "l", "o", "r", "t", "b", "l", ";", "\\", "r", "e", "d", "2", "5", "5", "\\", "g", "r", "e", "e", "n", "0", "\\", "b", "l", "u", "e", "0", ";", "\\", "b", "l", "u", "e", "7", ";", "}", "a", "b", "c">>

\* a font table whose first entry has a nested group between a control word
\* and the name, and whose second entry has no font id:
\* {\fonttbl{\f0\fnil{\*\x}T R;}{\fnil N;}}
Doc_FontPanose ==
  <<"{", "\\", "f", "o", "n", "t", "t", "b", "l", "{", "\\", "f", "0", "\\", "f", "n", "i", "l", "{", "\\", "*", "\\", "x", "}", "T", " ", "R", ";", "}", "{", "\\", "f", "n", "i", "l", " ", "N", ";", "}", "}">>

\* the four breaks and two longer keywords that share a prefix with them:
\* a\pard b\cellx\line c\cell\row d\par5
Doc_Breaks ==
  <<"a", "\\", "p", "a", "r", "d", " ", "b", "\\", "c", "e", "l", "l", "x", "\\", "l", "i", "n", "e", " ", "c", "\\", "c", "e", "l", "l", "\\", "r", "o", "w", " ", "d", "\\", "p", "a", "r", "5">>

\* unrecognized control words, bare, with a parameter, with a negative
\* parameter, and followed by a hyphen that is text:  a\b-c\x1 d\li-20 e
Doc_ControlWords ==
  <<"a", "\\", "b", "-", "c", "\\", "x", "1", " ", "d", "\\", "l", "i", "-", "2", "0", " ", "e">>

\* control words that begin with a destination keyword and with a special
\* keyword:  {\headery t}\footerx{u}
Doc_LongKeyword ==
  <<"{", "\\", "h", "e", "a", "d", "e", "r", "y", " ", "t", "}", "\\", "f", "o", "o", "t", "e", "r", "x", "{", "u", "}">>

Scenarios ==
  { Doc_EndToEnd,
    Doc_RunSplit,
    Doc_Escapes,
    Doc_GroupFootnote,
    Doc_FootnoteMidText,
    Doc_BraceInFootnote,
    Doc_BraceInInfo,
    Doc_HeaderGroup,
    Doc_Nested,
    Doc_AllKinds,
    Doc_LiteralEscapes,
    Doc_HexNewline,
    Doc_Unicode,
    Doc_UnicodeFallback,
    Doc_ColorTable,
    Doc_FontPanose,
    Doc_Breaks,
    Doc_ControlWords,
    Doc_LongKeyword }




MaxFrags == 3

\* every concatenation of at most n pieces
RECURSIVE DocsOf(_)
DocsOf(n) ==
  IF n = 0 THEN { << >> }
  ELSE DocsOf(n - 1) \cup { f \o d : f \in Frags, d \in DocsOf(n - 1) }

Docs == DocsOf(MaxFrags) \cup Scenarios

\* how many documents one object parses
MaxParses == 2

\* ------------------------------------------------------------ actions

\* Begin that keeps the font table of the previous document when the new
\* document has none
Begin_KeepsFonts ==
  /\ \/ pc = "start"
     \/ pc = "done" /\ parses < MaxParses /\ data \in Scenarios
  /\ pc' = "scan"
  /\ parses' = parses + 1
  /\ data' \in Docs
  /\ format' = detect_rtf_format(data')
  /\ fonts' = IF Find(data', KW_fonttbl) = NoMatch THEN fonts
              ELSE parse_font_table(data', format')
  /\ font_map' = FontMapOf(fonts')
  /\ streams' = << >> /\ runs_g' = << >>
  /\ font_size' = DefaultFontSize /\ charset' = "loch" /\ dirctx' = "ltrch"
  /\ eff' = EffInit
  /\ stack' = << >>
  /\ text_parts' = << >> /\ parts_g' = << >>
  /\ i' = 0 /\ char_start' = 0 /\ char_end' = 0
  /\ snap' = << >>
  /\ last' = [op |-> "begin", at |-> 0, pend |-> << >>, fid |-> 0, n |-> 0]
  /\ branch' = BranchAt(data', 0)
  /\ UNCHANGED << colors, old, fix >>

\* parse_file up to the scan loop, on a new object or on one that has parsed
\* a document before: reset, read the file, detect the format, read the font
\* table, initialise the loop's locals
Begin ==
  /\ \/ pc = "start"
     \/ pc = "done" /\ parses < MaxParses /\ data \in Scenarios
  /\ pc' = "scan"
  /\ parses' = parses + 1
  /\ data' \in Docs
  /\ format' = detect_rtf_format(data')
  /\ fonts' = parse_font_table(data', format')
  /\ font_map' = FontMapOf(fonts')
  /\ streams' = << >> /\ runs_g' = << >>
  /\ font_size' = DefaultFontSize /\ charset' = "loch" /\ dirctx' = "ltrch"
  /\ eff' = EffInit
  /\ stack' = << >>
  /\ text_parts' = << >> /\ parts_g' = << >>
  /\ i' = 0 /\ char_start' = 0 /\ char_end' = 0
  /\ snap' = << >>
  /\ last' = [op |-> "begin", at |-> 0, pend |-> << >>, fid |-> 0, n |-> 0]
  /\ branch' = BranchAt(data', 0)
  /\ UNCHANGED << colors, old, fix >>

\* a metadata section of skip_sections: skip to the brace that closes it
SkipSection ==
  /\ At_("skip_section")
  /\ i' = BraceScan(data, i + Len(skip_sections[SkipSectionAt(data, i)]), 1)
  /\ UNCHANGED << pc, tables, formatting, stack, pending, emitted >>
  /\ History("skip_section")

\* \footnote, \header, \footer or \pict followed by a group: one stream of
\* that type holding the raw text of the group
\* SpecialBlock with the offsets of the inner text instead of the group's
SpecialBlock_InnerOffsets ==
  /\ At_("special_block")
  /\ LET j == SpecialBrace(data, i)
         block_end == BraceScan(data, j + 1, 1)
     IN  /\ streams' = Append(streams,
              [ text |-> Slice(data, j + 1, block_end - 1),
                font |-> [id |-> get_fid, name |-> FontName(font_map, get_fid),
                          size |-> font_size \div 2],
                char_start |-> j + 1, char_end |-> block_end - 1,
                type |-> special_keywords[SpecialAt(data, i)][2] ])
         /\ runs_g' = Append(runs_g, << >>)
         /\ i' = block_end
  /\ UNCHANGED << pc, tables, formatting, stack, pending >>
  /\ History("special_block")

SpecialBlock ==
  /\ At_("special_block")
  /\ LET j == SpecialBrace(data, i)
         block_end == BraceScan(data, j + 1, 1)
     IN  /\ streams' = Append(streams,
              [ text |-> Slice(data, j + 1, block_end - 1),
                font |-> [id |-> get_fid, name |-> FontName(font_map, get_fid),
                          size |-> font_size \div 2],
                char_start |-> j, char_end |-> block_end,
                type |-> special_keywords[SpecialAt(data, i)][2] ])
         /\ runs_g' = Append(runs_g, << >>)
         /\ i' = block_end
  /\ UNCHANGED << pc, tables, formatting, stack, pending >>
  /\ History("special_block")

\* a special keyword that no group follows: the keyword is skipped
SpecialKeyword ==
  /\ At_("special_keyword")
  /\ i' = SpecialBrace(data, i)
  /\ UNCHANGED << pc, tables, formatting, stack, pending, emitted >>
  /\ History("special_keyword")

\* a group that starts with \* : skipped to the brace that closes it
IgnoreGroup ==
  /\ At_("ignore_group")
  /\ i' = BraceScan(data, i + 3, 1)
  /\ UNCHANGED << pc, tables, formatting, stack, pending, emitted >>
  /\ History("ignore_group")

\* '{': push a copy of the formatting state
OpenBrace ==
  /\ At_("open")
  /\ stack' = Append(stack, State)
  /\ i' = i + 1
  /\ UNCHANGED << pc, tables, formatting, pending, emitted >>
  /\ History("open")

\* '}': flush under the state in force, then pop and restore (no frame: no-op)
\* CloseBrace that discards the pending text instead of emitting it
CloseBrace_DropsText ==
  /\ At_("close")
  /\ text_parts' = << >> /\ parts_g' = << >>
  /\ IF stack # << >>
     THEN /\ font_size' = stack[Len(stack)][1]
          /\ charset' = stack[Len(stack)][2]
          /\ dirctx' = stack[Len(stack)][3]
          /\ eff' = stack[Len(stack)][4]
          /\ stack' = SubSeq(stack, 1, Len(stack) - 1)
     ELSE UNCHANGED << formatting, stack >>
  /\ i' = i + 1
  /\ char_start' = i + 1
  /\ UNCHANGED << pc, tables, emitted, char_end >>
  /\ History("close")

\* CloseBrace that falls back to the initial state when the stack is empty
CloseBrace_ResetOnEmpty ==
  /\ At_("close")
  /\ streams' = FlushedStreams(i)
  /\ runs_g' = FlushedRunsG
  /\ char_end' = FlushedCharEnd(i)
  /\ text_parts' = << >> /\ parts_g' = << >>
  /\ IF stack # << >>
     THEN /\ font_size' = stack[Len(stack)][1]
          /\ charset' = stack[Len(stack)][2]
          /\ dirctx' = stack[Len(stack)][3]
          /\ eff' = stack[Len(stack)][4]
          /\ stack' = SubSeq(stack, 1, Len(stack) - 1)
     ELSE /\ font_size' = DefaultFontSize
          /\ charset' = "loch" /\ dirctx' = "ltrch"
          /\ eff' = EffInit
          /\ stack' = stack
  /\ i' = i + 1
  /\ char_start' = i + 1
  /\ UNCHANGED << pc, tables >>
  /\ History("close")

CloseBrace ==
  /\ At_("close")
  /\ streams' = FlushedStreams(i)
  /\ runs_g' = FlushedRunsG
  /\ char_end' = FlushedCharEnd(i)
  /\ text_parts' = << >> /\ parts_g' = << >>
  /\ IF stack # << >>
     THEN /\ font_size' = stack[Len(stack)][1]
          /\ charset' = stack[Len(stack)][2]
          /\ dirctx' = stack[Len(stack)][3]
          /\ eff' = stack[Len(stack)][4]
          /\ stack' = SubSeq(stack, 1, Len(stack) - 1)
     ELSE UNCHANGED << formatting, stack >>
  /\ i' = i + 1
  /\ char_start' = i + 1
  /\ UNCHANGED << pc, tables >>
  /\ History("close")

\* an iteration that buffers the character ch and moves to offset e
Buffer(b, ch, e) ==
  /\ text_parts' = Append(text_parts, ch)
  /\ parts_g' = Append(parts_g, Part(i, ch))
  /\ i' = e
  /\ UNCHANGED << pc, tables, formatting, stack, char_start, char_end, emitted >>
  /\ History(b)

\* \uN with an optional '?'
Unicode == At_("unicode") /\ Buffer("unicode", UnicodeChar(UnicodeArg(data, i)), RE_UNICODE(data, i))

\* \~ : a no-break space
NoBreakSpace == At_("nbsp") /\ Buffer("nbsp", Chr(160), i + 2)

\* \- : an optional hyphen, nothing is buffered
OptionalHyphen ==
  /\ At_("hyphen")
  /\ i' = i + 2
  /\ UNCHANGED << pc, tables, formatting, stack, pending, emitted >>
  /\ History("hyphen")

\* The look-ahead after \{ \} \\ : the formatting control words that follow
\* immediately are consumed and applied, in the order the loop tests them.
RECURSIVE LookAhead(_, _)
LookAhead(d, st) ==
  IF RE_DIRCTX(d, st.j) # NoMatch
  THEN LookAhead(d, [st EXCEPT !.saw = TRUE, !.dirctx = DirctxArg(d, st.j),
                               !.j = RE_DIRCTX(d, st.j)])
  ELSE IF RE_CHARSET(d, st.j) # NoMatch
  THEN LookAhead(d, [st EXCEPT !.saw = TRUE, !.charset = CharsetArg(d, st.j),
                               !.j = RE_CHARSET(d, st.j)])
  ELSE IF RE_AFONT(d, st.j) # NoMatch
  THEN LookAhead(d, [st EXCEPT !.saw = TRUE,
                               !.eff[st.dirctx][st.charset] = NumberedArg(d, st.j, KW_af),
                               !.j = RE_AFONT(d, st.j)])
  ELSE IF RE_FONT_ID(d, st.j) # NoMatch
  THEN LookAhead(d, [st EXCEPT !.saw = TRUE,
                               !.eff[st.dirctx][st.charset] = NumberedArg(d, st.j, KW_f),
                               !.j = RE_FONT_ID(d, st.j)])
  ELSE IF RE_FONT_SIZE(d, st.j) # NoMatch
  THEN LookAhead(d, [st EXCEPT !.saw = TRUE, !.font_size = NumberedArg(d, st.j, KW_fs),
                               !.j = RE_FONT_SIZE(d, st.j)])
  ELSE st

\* EscapedSymbol with the backslash buffered as well
EscapedSymbol_KeepsBackslash ==
  /\ At_("escaped")
  /\ text_parts' = text_parts \o << "\\", At(data, i + 1) >>
  /\ parts_g' = parts_g \o << Part(i, "\\"), Part(i, At(data, i + 1)) >>
  /\ i' = i + 2
  /\ UNCHANGED << pc, tables, formatting, stack, char_start, char_end, emitted >>
  /\ History("escaped")

\* EscapedSymbol without the look-ahead: the literal joins the pending run and
\* the control words that follow are left to the loop
EscapedSymbol_NoLookAhead ==
  /\ At_("escaped")
  /\ text_parts' = Append(text_parts, At(data, i + 1))
  /\ parts_g' = Append(parts_g, Part(i, At(data, i + 1)))
  /\ i' = i + 2
  /\ UNCHANGED << pc, tables, formatting, stack, char_start, char_end, emitted >>
  /\ History("escaped")

\* \{ \} \\ : the literal character, which starts a new run under the new
\* state when formatting control words follow it immediately
EscapedSymbol ==
  /\ At_("escaped")
  /\ LET la == LookAhead(data, [j |-> i + 2, saw |-> FALSE, dirctx |-> dirctx,
                                charset |-> charset, eff |-> eff, font_size |-> font_size])
         out_ch == At(data, i + 1)
     IN  /\ streams' = IF la.saw THEN FlushedStreams(i) ELSE streams
         /\ runs_g' = IF la.saw THEN FlushedRunsG ELSE runs_g
         /\ char_end' = IF la.saw THEN FlushedCharEnd(i) ELSE char_end
         /\ dirctx' = la.dirctx /\ charset' = la.charset
         /\ eff' = la.eff /\ font_size' = la.font_size
         /\ char_start' = IF la.saw THEN i ELSE char_start
         /\ text_parts' = Append(IF la.saw THEN << >> ELSE text_parts, out_ch)
         /\ parts_g' = Append(IF la.saw THEN << >> ELSE parts_g,
                              << i, get_fid', font_size', out_ch >>)
         /\ i' = la.j
  /\ UNCHANGED << pc, tables, stack >>
  /\ History("escaped")

\* \'hh
HexEscape == At_("hex") /\ Buffer("hex", HexChar(data, i), RE_HEX_CHAR(data, i))

\* The five control words that change the formatting state: the pending text
\* is flushed (char_end = i) under the state in force, then the state changes.
FlushAndMove(e) ==
  /\ streams' = FlushedStreams(i)
  /\ runs_g' = FlushedRunsG
  /\ char_end' = FlushedCharEnd(i)
  /\ text_parts' = << >> /\ parts_g' = << >>
  /\ i' = e
  /\ char_start' = e
  /\ UNCHANGED << pc, tables, stack >>

DirCtx ==
  /\ At_("dirctx")
  /\ FlushAndMove(RE_DIRCTX(data, i))
  /\ dirctx' = DirctxArg(data, i)
  /\ UNCHANGED << font_size, charset, eff >>
  /\ History("dirctx")

Charset ==
  /\ At_("charset")
  /\ FlushAndMove(RE_CHARSET(data, i))
  /\ charset' = CharsetArg(data, i)
  /\ UNCHANGED << font_size, dirctx, eff >>
  /\ History("charset")

AFont ==
  /\ At_("afont")
  /\ FlushAndMove(RE_AFONT(data, i))
  /\ eff' = [eff EXCEPT ![dirctx][charset] = NumberedArg(data, i, KW_af)]
  /\ UNCHANGED << font_size, charset, dirctx >>
  /\ History("afont")

\* FontId with a single active font instead of the 2 x 3 map
FontId_AllSlots ==
  /\ At_("font_id")
  /\ FlushAndMove(RE_FONT_ID(data, i))
  /\ eff' = [d \in DOMAIN eff |->
              [c \in DOMAIN eff[d] |-> NumberedArg(data, i, KW_f)]]
  /\ UNCHANGED << font_size, charset, dirctx >>
  /\ History("font_id")

\* FontId with the flush of the pending text forgotten
FontId_NoFlush ==
  /\ At_("font_id")
  /\ i' = RE_FONT_ID(data, i)
  /\ eff' = [eff EXCEPT ![dirctx][charset] = NumberedArg(data, i, KW_f)]
  /\ UNCHANGED << pc, tables, stack, font_size, charset, dirctx, pending, emitted >>
  /\ History("font_id")

FontId ==
  /\ At_("font_id")
  /\ FlushAndMove(RE_FONT_ID(data, i))
  /\ eff' = [eff EXCEPT ![dirctx][charset] = NumberedArg(data, i, KW_f)]
  /\ UNCHANGED << font_size, charset, dirctx >>
  /\ History("font_id")

\* FontSize with the flush of the pending text forgotten
FontSize_NoFlush ==
  /\ At_("font_size")
  /\ i' = RE_FONT_SIZE(data, i)
  /\ font_size' = NumberedArg(data, i, KW_fs)
  /\ UNCHANGED << pc, tables, stack, charset, dirctx, eff, pending, emitted >>
  /\ History("font_size")

FontSize ==
  /\ At_("font_size")
  /\ FlushAndMove(RE_FONT_SIZE(data, i))
  /\ font_size' = NumberedArg(data, i, KW_fs)
  /\ UNCHANGED << charset, dirctx, eff >>
  /\ History("font_size")

\* \par \line \cell \row: flush_text(i), then the break event
\* StructuralBreak with the break event emitted before the pending text
StructuralBreak_BreakFirst(b, type, e) ==
  /\ At_(b)
  /\ streams' = streams \o (IF Emits
                            THEN << Break(type, i, e),
                                    TextRun(clean_text(text_parts), char_start, i) >>
                            ELSE << Break(type, i, e) >>)
  /\ runs_g' = IF Emits
               THEN runs_g \o << << >>, SelectSeq(parts_g, LAMBDA g : g[4] \notin {"\r", "\n"}) >>
               ELSE Append(runs_g, << >>)
  /\ text_parts' = << >> /\ parts_g' = << >>
  /\ i' = e
  /\ char_start' = e
  /\ UNCHANGED << pc, tables, formatting, stack, char_end >>
  /\ History(b)

StructuralBreak(b, type, e) ==
  /\ At_(b)
  /\ streams' = Append(FlushedStreams(i), Break(type, i, e))
  /\ runs_g' = Append(FlushedRunsG, << >>)
  /\ text_parts' = << >> /\ parts_g' = << >>
  /\ i' = e
  /\ char_start' = e
  /\ UNCHANGED << pc, tables, formatting, stack, char_end >>
  /\ History(b)

Par == StructuralBreak("par", "par_break", RE_PAR(data, i))
Line == StructuralBreak("line", "line_break", RE_LINE(data, i))
Cell == StructuralBreak("cell", "cell_break", RE_CELL(data, i))
Row == StructuralBreak("row", "row_break", RE_ROW(data, i))

\* any other control word: consumed
ControlWord ==
  /\ At_("control_word")
  /\ i' = RE_CONTROL_WORD(data, i)
  /\ UNCHANGED << pc, tables, formatting, stack, pending, emitted >>
  /\ History("control_word")

\* a backslash that starts nothing known: i += 1
\* Backslash with "i += 1" forgotten
Backslash_Stuck ==
  /\ At_("backslash")
  /\ i' = i
  /\ UNCHANGED << pc, tables, formatting, stack, pending, emitted >>
  /\ History("backslash")

Backslash ==
  /\ At_("backslash")
  /\ i' = i + 1
  /\ UNCHANGED << pc, tables, formatting, stack, pending, emitted >>
  /\ History("backslash")

\* any other character is buffered
Char == At_("char") /\ Buffer("char", At(data, i), i + 1)

\* Finish with "char_end = i" forgotten: the final run ends where the
\* previous flush ended
Finish_StaleCharEnd ==
  /\ pc = "scan" /\ branch = "eof"
  /\ pc' = "done"
  /\ streams' = FlushedStreams(char_end)
  /\ runs_g' = FlushedRunsG
  /\ last' = [op |-> "finish", at |-> i, pend |-> clean_text(text_parts),
               fid |-> get_fid, n |-> Len(streams)]
  /\ UNCHANGED << tables, formatting, stack, text_parts, parts_g, char_start,
                  char_end, i, snap, branch, old, fix >>

\* end of input: the final flush (char_end = i); parse_file returns
Finish ==
  /\ pc = "scan" /\ branch = "eof"
  /\ pc' = "done"
  /\ streams' = FlushedStreams(i)
  /\ runs_g' = FlushedRunsG
  /\ char_end' = FlushedCharEnd(i)
  /\ last' = [op |-> "finish", at |-> i, pend |-> clean_text(text_parts),
               fid |-> get_fid, n |-> Len(streams)]
  /\ UNCHANGED << tables, formatting, stack, text_parts, parts_g, char_start, i, snap,
                  branch, old, fix >>

Next ==
  \/ Begin \/ SkipSection \/ SpecialBlock \/ SpecialKeyword \/ IgnoreGroup
  \/ OpenBrace \/ CloseBrace \/ Unicode \/ NoBreakSpace \/ OptionalHyphen
  \/ EscapedSymbol \/ HexEscape \/ DirCtx \/ Charset \/ AFont \/ FontId
  \/ FontSize \/ Par \/ Line \/ Cell \/ Row \/ ControlWord \/ Backslash
  \/ Char \/ Finish

\* ------------------------------------------------------------ the older parser
\* BasicRTF.parse_file of src/IE00EGS1016703/basic_rtf.py. Its state is the
\* record old: the locals and the fields of parse_file under their names, and
\* pc: "start", "scan" (inside the while loop), "done" (parse_file returned)
\* or "raised" (an exception left parse_file).

\* the characters str.strip() removes
StripSet ==
  {Chr(n) : n \in {9, 10, 11, 12, 13, 28, 29, 30, 31, 32, 133, 160}}

\* text.strip() is not empty
OldHasText(text) == \E k \in DOMAIN text : text[k] \notin StripSet

\* str(n) for n >= 0
RECURSIVE DigitsOf(_)
DigitsOf(n) ==
  IF n < 10 THEN << Ascii[n + 17] >>
  ELSE Append(DigitsOf(n \div 10), Ascii[(n % 10) + 17])

\* re.match(r"\\u(-?\d+)(?:\\'[0-9a-fA-F]{2}|.)", data[i:]): << end of the
\* match, end of the digits >>, both NoMatch when the pattern does not match.
\* The fallback is required: when
\* nothing that '.' matches follows the digits, the last digit is given up
\* and taken as the fallback.
OldUnicodeMatch(d, k) ==
  LET s == UnicodeDigitsStart(d, k)
      e == RunEnd(d, s, Digits)
  IN  IF ~StartsWith(d, KW_u, k) \/ e = s THEN << NoMatch, NoMatch >>
      ELSE IF RE_HEX_CHAR(d, e) # NoMatch THEN << e + 4, e >>
      ELSE IF e < Len(d) /\ At(d, e) # "\n" THEN << e + 1, e >>
      ELSE IF e - 1 > s THEN << e, e - 1 >>
      ELSE << NoMatch, NoMatch >>

\* int(m.group(1)) of an OldUnicodeMatch
OldUnicodeArg(d, k) ==
  LET s == UnicodeDigitsStart(d, k)
      v == ParseInt(d, s, OldUnicodeMatch(d, k)[2])
  IN  IF At(d, k + 2) = "-" THEN 0 - v ELSE v

\* re.match(r'\\f(\d+)', ...) and re.match(r'\\fs(\d+)', ...): no blank is
\* consumed after the digits
OldNumbered(d, k, kw) ==
  IF StartsWith(d, kw, k) /\ At(d, k + Len(kw)) \in Digits
  THEN RunEnd(d, k + Len(kw), Digits) ELSE NoMatch

\* re.match(r'\\[a-zA-Z0-9]+\s?', ...)
OldControlWord(d, k) ==
  LET e == RunEnd(d, k + 1, Letters \cup Digits)
  IN  IF At(d, k) = "\\" /\ e > k + 1 THEN OptWs(d, e) ELSE NoMatch

\* the first entry of special_keywords the text at k starts with (0: none);
\* the older parser does not test what follows the keyword
OldSpecialAt(d, k) ==
  LET hits == {n \in DOMAIN special_keywords : StartsWith(d, special_keywords[n][1], k)}
  IN  IF hits = {} THEN 0 ELSE CHOOSE n \in hits : \A h \in hits : n <= h

OldSpecialBrace(d, k) ==
  RunEnd(d, k + Len(special_keywords[OldSpecialAt(d, k)][1]), {" ", "\n", "\r", "\t"})

\* re.search(r' ([^\;]+);', entry): the name of a font-table entry, or
\* f<fid> when the pattern does not occur
OldEntryName(entry, fid) ==
  LET hits == {s \in 0..(Len(entry) - 1) :
                 /\ At(entry, s) = " "
                 /\ LET r == RunEnd(entry, s + 1,
                                    {entry[n] : n \in DOMAIN entry} \ {"\\", ";"})
                    IN  r > s + 1 /\ At(entry, r) = ";"}
  IN  IF hits = {} THEN << "f" >> \o DigitsOf(fid)
      ELSE LET s == CHOOSE h \in hits : \A g \in hits : h <= g
           IN  Strip(Slice(entry, s + 1,
                           RunEnd(entry, s + 1,
                                  {entry[n] : n \in DOMAIN entry} \ {"\\", ";"})))

\* re.finditer(r'{\\f(\d+)[^;]*;}', fonttbl_data) from offset p on: the fonts
\* of the matches, in order
RECURSIVE OldFontEntries(_, _)
OldFontEntries(fd, p) ==
  IF p >= Len(fd) THEN << >>
  ELSE LET q == FirstOf(fd, p + 3, ";")
       IN  IF /\ StartsWith(fd, KW_entry_f, p) /\ At(fd, p + 3) \in Digits
              /\ q # NoMatch /\ At(fd, q + 1) = "}"
           THEN LET fid == ParseInt(fd, p + 3, RunEnd(fd, p + 3, Digits))
                IN  << [id |-> fid, name |-> OldEntryName(Slice(fd, p, q + 2), fid)] >>
                      \o OldFontEntries(fd, q + 2)
           ELSE OldFontEntries(fd, p + 1)

\* The branch one iteration of the older loop takes at offset k, in the order
\* the loop tests them. The color-table test compares the nine characters
\* data[i:i+9] with the ten characters of {\colortbl and is never true, so
\* in_colortbl stays False and that branch is never taken.
OldBranch(d, k, in_fonttable) ==
  LET c == At(d, k) IN
  IF StartsWith(d, KW_fonttbl, k) THEN "fonttbl"
  ELSE IF in_fonttable THEN "in_fonttable"
  ELSE IF c = "\\" /\ OldSpecialAt(d, k) # 0 THEN
         (IF At(d, OldSpecialBrace(d, k)) = "{" THEN "special_block" ELSE "special_keyword")
  ELSE IF c = "{" /\ k + 1 < Len(d) /\ At(d, k + 1) = "\\"
            /\ (k + 2 >= Len(d) \/ At(d, k + 2) = "*") THEN "ignore_group"
  ELSE IF c = "{" THEN "open"
  ELSE IF c = "}" THEN "close"
  ELSE IF c = "\\" THEN
         (IF OldUnicodeMatch(d, k)[1] # NoMatch THEN "unicode"
          ELSE IF StartsWith(d, <<"\\", "~">>, k) THEN "nbsp"
          ELSE IF StartsWith(d, <<"\\", "-">>, k) THEN "hyphen"
          ELSE IF RE_HEX_CHAR(d, k) # NoMatch THEN "hex"
          ELSE IF OldNumbered(d, k, KW_f) # NoMatch THEN "font_id"
          ELSE IF OldNumbered(d, k, KW_fs) # NoMatch THEN "font_size"
          ELSE IF StartsWith(d, KW_par, k) /\ At(d, k + 4) \notin Letters THEN "par"
          ELSE IF OldControlWord(d, k) # NoMatch THEN "control_word"
          ELSE "backslash")
  ELSE "char"

\* the pieces the documents of the older parser are put together from
OldFrags ==
  { <<"{">>,
    <<"}">>,
    <<"a">>,
    <<" ">>,
    <<";">>,
    <<"\\">>,
    <<"\\", "*">>,
    <<"\\", "~">>,
    <<"\\", "-">>,
    <<"\\", "f", "1">>,
    <<"\\", "f", "s", "2", "0">>,
    <<"\\", "p", "a", "r">>,
    <<"\\", "b", " ">>,
    <<"\\", "u", "6", "5", "?">>,
    <<"\\", "u", "1", "2">>,
    <<"\\", "'", "4", "1">>,
    <<"\\", "f", "o", "o", "t", "n", "o", "t", "e">>,
    <<"{", "\\", "f", "o", "n", "t", "t", "b", "l">>,
    <<"{", "\\", "f", "2", " ", "B", ";", "}">> }

\* a font table, text in two fonts, a footnote:
\* {\fonttbl{\f1\fnil A b;}{\f3;}}\f1 x\footnote {y}
OldDoc_Fonts ==
  <<"{", "\\", "f", "o", "n", "t", "t", "b", "l", "{", "\\", "f", "1", "\\", "f", "n", "i", "l", " ", "A", " ", "b", ";", "}", "{", "\\", "f", "3", ";", "}", "}", "\\", "f", "1", " ", "x", "\\", "f", "o", "o", "t", "n", "o", "t", "e", " ", "{", "y", "}">>

\* a group that is closed twice:  {a}}b
OldDoc_ExtraClose ==
  <<"{", "a", "}", "}", "b">>

\* a document that ends right after {\ :  ab{\
OldDoc_EndsInGroupStart ==
  <<"a", "b", "{", "\\">>

OldScenarios == { OldDoc_Fonts, OldDoc_ExtraClose, OldDoc_EndsInGroupStart }

\* every concatenation of at most n pieces
RECURSIVE OldDocsOf(_)
OldDocsOf(n) ==
  IF n = 0 THEN { << >> }
  ELSE OldDocsOf(n - 1) \cup { f \o d : f \in OldFrags, d \in OldDocsOf(n - 1) }

OldDocs == OldDocsOf(MaxFrags) \cup OldScenarios

\* a new object of the older class: __init__
OldStart ==
  [ pc |-> "start", data |-> << >>, i |-> 0,
    font_id |-> 0, font_size |-> DefaultFontSize, stack |-> << >>, text |-> << >>,
    in_fonttable |-> FALSE, fonttbl_brace_level |-> 0, fonttbl_data |-> << >>,
    fonts |-> << >>, streams |-> << >>, char_start |-> 0, char_end |-> 0 ]

\* the dict the older parser appends for a text run that ends at offset end
OldTextRun(end) ==
  [ text |-> old.text,
    font |-> [id |-> old.font_id, name |-> FontName(FontMapOf(old.fonts), old.font_id),
              size |-> old.font_size \div 2],
    char_start |-> old.char_start, char_end |-> end ]

\* "if text.strip(): char_end = i; append(...); text = ''" : the record after
\* the pending text is flushed at the scan position
OldFlushed ==
  IF OldHasText(old.text)
  THEN [old EXCEPT !.streams = Append(old.streams, OldTextRun(old.i)),
                   !.char_end = old.i, !.text = << >>]
  ELSE old

\* the loop is at an iteration that takes branch b
OldAt(b) ==
  /\ old.pc = "scan" /\ old.i < Len(old.data)
  /\ OldBranch(old.data, old.i, old.in_fonttable) = b

\* the variables of the newer parser
newer == << data, pc, parses, branch, format, fonts, font_map, colors, streams, i,
            font_size, charset, dirctx, eff, stack, text_parts, char_start, char_end,
            parts_g, runs_g, snap, last >>

\* parse_file up to the loop: reset, read the file, initialise the locals
OldBegin ==
  /\ old.pc = "start"
  /\ \E d \in OldDocs : old' = [OldStart EXCEPT !.pc = "scan", !.data = d]
  /\ UNCHANGED << newer, fix >>

\* {\fonttbl : the font table starts (again, if one is open)
OldFontTable ==
  /\ OldAt("fonttbl")
  /\ old' = [old EXCEPT !.in_fonttable = TRUE, !.fonttbl_brace_level = 1,
                        !.i = old.i + 9]
  /\ UNCHANGED << newer, fix >>

\* a character inside the font table: counted if it is a brace and collected;
\* the brace that closes the table has its entries parsed
OldInFontTable ==
  /\ OldAt("in_fonttable")
  /\ LET c == At(old.data, old.i)
         level == IF c = "{" THEN old.fonttbl_brace_level + 1
                  ELSE IF c = "}" THEN old.fonttbl_brace_level - 1
                  ELSE old.fonttbl_brace_level
     IN  old' = IF c = "}" /\ level = 0
                THEN [old EXCEPT !.fonttbl_brace_level = level,
                                 !.in_fonttable = FALSE,
                                 !.fonts = old.fonts \o OldFontEntries(old.fonttbl_data, 0),
                                 !.fonttbl_data = << >>,
                                 !.i = old.i + 1]
                ELSE [old EXCEPT !.fonttbl_brace_level = level,
                                 !.fonttbl_data = Append(old.fonttbl_data, c),
                                 !.i = old.i + 1]
  /\ UNCHANGED << newer, fix >>

\* \footnote, \header, \footer or \pict followed by a group
OldSpecialBlock ==
  /\ OldAt("special_block")
  /\ LET j == OldSpecialBrace(old.data, old.i)
         block_end == BraceScan(old.data, j + 1, 1)
     IN  old' = [old EXCEPT
                   !.streams = Append(old.streams,
                     [ text |-> Slice(old.data, j + 1, block_end - 1),
                       font |-> [id |-> old.font_id,
                                 name |-> FontName(FontMapOf(old.fonts), old.font_id),
                                 size |-> old.font_size \div 2],
                       char_start |-> j, char_end |-> block_end,
                       type |-> special_keywords[OldSpecialAt(old.data, old.i)][2] ]),
                   !.i = block_end]
  /\ UNCHANGED << newer, fix >>

\* a special keyword that no group follows: the keyword is skipped
OldSpecialKeyword ==
  /\ OldAt("special_keyword")
  /\ old' = [old EXCEPT !.i = OldSpecialBrace(old.data, old.i)]
  /\ UNCHANGED << newer, fix >>

\* a group that starts with \* is skipped; the test reads data[i+2] after it
\* has checked only that i + 1 < len(data), and raises IndexError when the
\* document ends with {\
OldIgnoreGroup ==
  /\ OldAt("ignore_group")
  /\ old' = IF old.i + 2 >= Len(old.data)
            THEN [old EXCEPT !.pc = "raised"]
            ELSE [old EXCEPT !.i = BraceScan(old.data, old.i + 3, 1)]
  /\ UNCHANGED << newer, fix >>

\* '{': push (font_id, font_size)
OldOpenBrace ==
  /\ OldAt("open")
  /\ old' = [old EXCEPT !.stack = Append(old.stack, << old.font_id, old.font_size >>),
                        !.i = old.i + 1]
  /\ UNCHANGED << newer, fix >>

\* '}': flush, then stack.pop(), which raises IndexError on an empty stack
OldCloseBrace ==
  /\ OldAt("close")
  /\ old' = IF old.stack = << >>
            THEN [OldFlushed EXCEPT !.pc = "raised"]
            ELSE [OldFlushed EXCEPT
                    !.font_id = old.stack[Len(old.stack)][1],
                    !.font_size = old.stack[Len(old.stack)][2],
                    !.stack = SubSeq(old.stack, 1, Len(old.stack) - 1),
                    !.i = old.i + 1,
                    !.char_start = old.i + 1]
  /\ UNCHANGED << newer, fix >>

\* \uN with its fallback
OldUnicode ==
  /\ OldAt("unicode")
  /\ old' = [old EXCEPT
               !.text = Append(old.text, UnicodeChar(OldUnicodeArg(old.data, old.i))),
               !.i = OldUnicodeMatch(old.data, old.i)[1]]
  /\ UNCHANGED << newer, fix >>

\* \~
OldNoBreakSpace ==
  /\ OldAt("nbsp")
  /\ old' = [old EXCEPT !.text = Append(old.text, Chr(160)), !.i = old.i + 2]
  /\ UNCHANGED << newer, fix >>

\* \-
OldOptionalHyphen ==
  /\ OldAt("hyphen")
  /\ old' = [old EXCEPT !.i = old.i + 2]
  /\ UNCHANGED << newer, fix >>

\* \'hh
OldHexEscape ==
  /\ OldAt("hex")
  /\ old' = [old EXCEPT !.text = Append(old.text, HexChar(old.data, old.i)),
                        !.i = old.i + 4]
  /\ UNCHANGED << newer, fix >>

\* \fN: flush, then the font changes
OldFontId ==
  /\ OldAt("font_id")
  /\ LET e == OldNumbered(old.data, old.i, KW_f)
     IN  old' = [OldFlushed EXCEPT
                   !.font_id = ParseInt(old.data, old.i + 2, e),
                   !.i = e, !.char_start = e]
  /\ UNCHANGED << newer, fix >>

\* \fsN: flush, then the size changes
OldFontSize ==
  /\ OldAt("font_size")
  /\ LET e == OldNumbered(old.data, old.i, KW_fs)
     IN  old' = [OldFlushed EXCEPT
                   !.font_size = ParseInt(old.data, old.i + 3, e),
                   !.i = e, !.char_start = e]
  /\ UNCHANGED << newer, fix >>

\* \par that no letter follows: a line feed is appended to the text
OldPar ==
  /\ OldAt("par")
  /\ old' = [old EXCEPT !.text = Append(old.text, "\n"), !.i = old.i + 4]
  /\ UNCHANGED << newer, fix >>

\* any other control word: consumed
OldOtherControlWord ==
  /\ OldAt("control_word")
  /\ old' = [old EXCEPT !.i = OldControlWord(old.data, old.i)]
  /\ UNCHANGED << newer, fix >>

\* a backslash that starts nothing known: i += 1
OldBackslash ==
  /\ OldAt("backslash")
  /\ old' = [old EXCEPT !.i = old.i + 1]
  /\ UNCHANGED << newer, fix >>

\* any other character is appended to the text
OldChar ==
  /\ OldAt("char")
  /\ old' = [old EXCEPT !.text = Append(old.text, At(old.data, old.i)),
                        !.i = old.i + 1]
  /\ UNCHANGED << newer, fix >>

\* end of input: the final flush; parse_file returns
OldFinish ==
  /\ old.pc = "scan" /\ old.i >= Len(old.data)
  /\ old' = [ (IF OldHasText(old.text)
               THEN [old EXCEPT !.streams = Append(old.streams, OldTextRun(old.i)),
                                !.char_end = old.i]
               ELSE old) EXCEPT !.pc = "done" ]
  /\ UNCHANGED << newer, fix >>

OldNext ==
  \/ OldBegin \/ OldFontTable \/ OldInFontTable \/ OldSpecialBlock
  \/ OldSpecialKeyword \/ OldIgnoreGroup \/ OldOpenBrace \/ OldCloseBrace
  \/ OldUnicode \/ OldNoBreakSpace \/ OldOptionalHyphen \/ OldHexEscape
  \/ OldFontId \/ OldFontSize \/ OldPar \/ OldOtherControlWord \/ OldBackslash
  \/ OldChar \/ OldFinish

\* ------------------------------------------------------------ text fixes
\* src/IE1PD100944/tibetan_text_fixes.py. A text is a sequence of characters;
\* a Tibetan character is written U+<code point> (Chr).

\* the vowel signs, U+0F71 to U+0F84
TIBETAN_VOWELS == {Chr(n) : n \in 3953..3972}
\* the base consonants, U+0F40 to U+0F6C
TIBETAN_CONSONANTS == {Chr(n) : n \in 3904..3948}
\* the subscript consonants, U+0F90 to U+0FBC
TIBETAN_SUBSCRIPTS == {Chr(n) : n \in 3984..4028}
\* the syllable separator, U+0F0B
TIBETAN_TSEG == Chr(3851)
\* the sentence marker (shad), U+0F0D
TIBETAN_SHED == Chr(3853)

\* XML_TAGS_PATTERN  (?:<[^>]*>)*  matched at offset k: where the longest
\* sequence of tags ends (k itself when no tag starts there)
RECURSIVE XML_TAGS_PATTERN(_, _)
XML_TAGS_PATTERN(text, k) ==
  LET close == FirstOf(text, k + 1, ">")
  IN  IF At(text, k) = "<" /\ close # NoMatch
      THEN XML_TAGS_PATTERN(text, close + 1)
      ELSE k

\* (first)(XML_TAGS_PATTERN)\n+(XML_TAGS_PATTERN)(follow) matched at offset p:
\* << where the line feeds start, where they end, where the match ends >>,
\* all NoMatch when the pattern does not match at p
JoinMatch(text, p, first, follow) ==
  LET a == XML_TAGS_PATTERN(text, p + 1)
      b == RunEnd(text, a, {"\n"})
      c == XML_TAGS_PATTERN(text, b)
  IN  IF At(text, p) \in first /\ b > a /\ At(text, c) \in follow
      THEN << a, b, c + 1 >>
      ELSE << NoMatch, NoMatch, NoMatch >>

\* re.sub(pattern, r'\1\2\3\4', text) from offset p on: the matches are taken
\* from left to right, the search goes on after the end of each match, and
\* each match is replaced by itself without its line feeds
RECURSIVE JoinLines(_, _, _, _)
JoinLines(text, p, first, follow) ==
  IF p >= Len(text) THEN << >>
  ELSE LET m == JoinMatch(text, p, first, follow)
       IN  IF m[1] # NoMatch
           THEN Slice(text, p, m[1]) \o Slice(text, m[2], m[3])
                  \o JoinLines(text, m[3], first, follow)
           ELSE << text[p + 1] >> \o JoinLines(text, p + 1, first, follow)

\* a consonant, a subscript or a vowel sign
TibetanLetters == TIBETAN_CONSONANTS \cup TIBETAN_SUBSCRIPTS \cup TIBETAN_VOWELS

fix_flying_vowels(text) == JoinLines(text, 0, TibetanLetters, TIBETAN_VOWELS)

fix_flying_subscripts(text) == JoinLines(text, 0, TIBETAN_CONSONANTS, TIBETAN_SUBSCRIPTS)

fix_mid_word_breaks(text) == JoinLines(text, 0, TibetanLetters, TIBETAN_CONSONANTS)

fix_flying_tseg(text) == JoinLines(text, 0, TibetanLetters, {TIBETAN_TSEG})

\* flying vowels, then flying subscripts, then flying tseg; the call of
\* fix_mid_word_breaks was removed from the function
fix_flying_vowels_and_linebreaks(text) ==
  fix_flying_tseg(fix_flying_subscripts(fix_flying_vowels(text)))

\* the characters the texts are written with: a consonant, a subscript, a
\* vowel sign, tseg, shad, a line feed and the two delimiters of a tag
FixChars ==
  {Chr(3904), Chr(4017), Chr(3954), TIBETAN_TSEG, TIBETAN_SHED, "\n", "<", ">"}

MaxTextLen == 4

\* every text of at most n characters
RECURSIVE TextsOf(_)
TextsOf(n) ==
  IF n = 0 THEN { << >> }
  ELSE TextsOf(n - 1) \cup { Append(t, c) : t \in TextsOf(n - 1), c \in FixChars }

\* a word broken inside tags:  ka <b> LF LF <c> ka
Text_BrokenInTags ==
  << Chr(3904), "<", "b", ">", "\n", "\n", "<", "c", ">", Chr(3904) >>

\* the three kinds of break in one text (the test test_complex_text):
\* ka LF i tseg ka LF ya tseg ka i LF ka shad
Text_Complex ==
  << Chr(3904), "\n", Chr(3954), TIBETAN_TSEG, Chr(3904), "\n", Chr(4017), TIBETAN_TSEG,
     Chr(3904), Chr(3954), "\n", Chr(3904), TIBETAN_SHED >>

Texts == TextsOf(MaxTextLen) \cup { Text_BrokenInTags, Text_Complex }

\* no call has been made
FixStart == [op |-> "none", text |-> << >>, result |-> << >>]

\* a call of function op on a text: fix records the argument and the result.
Called(op, text, result) ==
  /\ fix' = [op |-> op, text |-> text, result |-> result]
  /\ UNCHANGED << newer, old >>

\* the functions keep no state: one call is followed by no other
call_fix_flying_vowels ==
  /\ fix.op = "none"
  /\ \E text \in Texts :
       Called("fix_flying_vowels", text, fix_flying_vowels(text))

call_fix_flying_subscripts ==
  /\ fix.op = "none"
  /\ \E text \in Texts :
       Called("fix_flying_subscripts", text, fix_flying_subscripts(text))

call_fix_mid_word_breaks ==
  /\ fix.op = "none"
  /\ \E text \in Texts :
       Called("fix_mid_word_breaks", text, fix_mid_word_breaks(text))

call_fix_flying_tseg ==
  /\ fix.op = "none"
  /\ \E text \in Texts :
       Called("fix_flying_tseg", text, fix_flying_tseg(text))

call_fix_flying_vowels_and_linebreaks ==
  /\ fix.op = "none"
  /\ \E text \in Texts :
       Called("fix_flying_vowels_and_linebreaks", text, fix_flying_vowels_and_linebreaks(text))

FixNext ==
  \/ call_fix_flying_vowels \/ call_fix_flying_subscripts
  \/ call_fix_mid_word_breaks \/ call_fix_flying_tseg
  \/ call_fix_flying_vowels_and_linebreaks

\* ------------------------------------------------------------ the object

\* the state of a BasicRTF object after __init__, with d as self._raw_data
InitWith(d) ==
  /\ data = d
  /\ pc = "start"
  /\ parses = 0
  /\ branch = "begin"
  /\ format = "none"
  /\ fonts = << >>
  /\ font_map = << >>
  /\ colors = << >>
  /\ streams = << >> /\ runs_g = << >>
  /\ i = 0 /\ char_start = 0 /\ char_end = 0
  /\ font_size = DefaultFontSize /\ charset = "loch" /\ dirctx = "ltrch"
  /\ eff = EffInit
  /\ stack = << >>
  /\ text_parts = << >> /\ parts_g = << >>
  /\ snap = << >>
  /\ last = [op |-> "init", at |-> 0, pend |-> << >>, fid |-> 0, n |-> 0]
  /\ old = OldStart
  /\ fix = FixStart


\* a new object: it has read no document yet
Init == InitWith(<< >>)

Spec == Init /\ [][Next]_vars

\* parse_file is one sequential call: the loop takes its next iteration as
\* long as there is one to take
LiveSpec == Init /\ [][Next]_vars /\ WF_vars(Next)

\* an object of the older parser and one call of its parse_file
OldSpec == Init /\ [][OldNext]_vars

\* one call of a function of tibetan_text_fixes.py on any text
FixSpec == Init /\ [][FixNext]_vars

\* ------------------------------------------------------------ properties

TextRuns == SelectSeq(streams, IsRun)

\* C1: parsing {\fonttbl{\f0\fnil Body;}}{\f0\fs20 Hello\par World} emits
\* exactly three events, in this order: the text run "Hello" with font name
\* "Body" and size 10, a par_break, the text run "World" with font name "Body"
\* and size 10.
C1_EndToEnd ==
  (data = Doc_EndToEnd /\ pc = "done") =>
    /\ Len(streams) = 3
    /\ IsRun(streams[1])
    /\ streams[1].text = <<"H", "e", "l", "l", "o">>
    /\ streams[1].font.name = <<"B", "o", "d", "y">>
    /\ streams[1].font.size = 10
    /\ IsBreak(streams[2])
    /\ streams[2].type = "par_break"
    /\ IsRun(streams[3])
    /\ streams[3].text = <<"W", "o", "r", "l", "d">>
    /\ streams[3].font.name = <<"B", "o", "d", "y">>
    /\ streams[3].font.size = 10

\* the end-to-end document has been parsed to its end
C1_Witness == data = Doc_EndToEnd /\ pc = "done" /\ Len(streams) = 3

\* C2: every emitted text run reports the font id and the size that were
\* active when each of its characters was buffered, the name the font table
\* gives that id (empty when the id is absent) and the half-point size
\* divided by two; the pending buffer never holds a character buffered under
\* another font id or size than the active ones (every change of the state is
\* preceded by a flush).
C2_RunAttribution ==
  /\ \A n \in DOMAIN parts_g :
        parts_g[n][2] = get_fid /\ parts_g[n][3] = font_size
  /\ \A k \in DOMAIN streams :
        IsRun(streams[k]) =>
          /\ Len(runs_g[k]) = Len(streams[k].text)
          /\ \A n \in DOMAIN runs_g[k] :
                /\ runs_g[k][n][4] = streams[k].text[n]
                /\ runs_g[k][n][2] = streams[k].font.id
                /\ runs_g[k][n][3] \div 2 = streams[k].font.size
          /\ streams[k].font.name = FontName(font_map, streams[k].font.id)

\* a run buffered under font 2 and size 20 inside a group was emitted, and the
\* state has since been restored to font 0 and size 24
C2_Witness ==
  /\ pc = "done"
  /\ get_fid = 0 /\ font_size = 24
  /\ \E k \in DOMAIN streams :
        IsRun(streams[k]) /\ streams[k].font.id = 2 /\ streams[k].font.size = 10

\* ---------------------------------------------------------------------------
\* The group structure of a document, as RTF defines it: a backslash takes the
\* character after it with it (an escaped symbol or the first character of a
\* control word), every other { opens a group and every other } closes the
\* innermost open one.

RECURSIVE Groups(_, _, _, _, _)
Groups(d, k, open, pairs, ok) ==
  IF k >= Len(d) THEN [pairs |-> pairs, ok |-> ok /\ open = << >>]
  ELSE IF At(d, k) = "\\" THEN Groups(d, k + 2, open, pairs, ok)
  ELSE IF At(d, k) = "{" THEN Groups(d, k + 1, << k >> \o open, pairs, ok)
  ELSE IF At(d, k) = "}" THEN
         IF open = << >> THEN Groups(d, k + 1, open, pairs, FALSE)
         ELSE Groups(d, k + 1, Tail(open), pairs \cup {<< Head(open), k >>}, ok)
  ELSE Groups(d, k + 1, open, pairs, ok)

\* the pairs << offset of {, offset of its matching } >>
GroupPairs(d) == Groups(d, 0, << >>, {}, TRUE).pairs

\* every } closes a group and every group is closed
WellBalanced(d) == Groups(d, 0, << >>, {}, TRUE).ok

\* the state before and after the iteration that consumed offset k
StateBefore(k) == snap[k + 1][1]
StateAfter(k) == snap[k + 1][2]

\* C3: in a well-balanced document, the font size, the charset context, the
\* directionality context and the six effective-font slots active right after
\* a closing brace are those that were active right before its matching
\* opening brace.
C3_ScopeRestoration ==
  WellBalanced(data) =>
    \A pr \in GroupPairs(data) :
      pr[2] < Len(snap) => StateAfter(pr[2]) = StateBefore(pr[1])

\* the offsets at which a token starts: an escaped character and the first
\* character of a control word belong to the backslash before them
RECURSIVE TokenStarts(_, _)
TokenStarts(d, k) ==
  IF k >= Len(d) THEN {}
  ELSE {k} \cup TokenStarts(d, IF At(d, k) = "\\" THEN k + 2 ELSE k + 1)

\* the keyword kw stands at k and is not continued by a letter or a digit
WholeWordAt(d, kw, k) ==
  StartsWith(d, kw, k) /\ At(d, k + Len(kw)) \notin (Letters \cup Digits)

\* the source offsets of the characters of the emitted text runs
RunOffsets ==
  UNION {{runs_g[k][n][1] : n \in DOMAIN runs_g[k]} :
           k \in {m \in DOMAIN streams : IsRun(streams[m])}}

\* no character of a text run was read from strictly inside one of the groups
Isolated(groups) ==
  \A pr \in groups : \A o \in RunOffsets : ~(pr[1] < o /\ o < pr[2])

\* the skipped destinations: font table, color table, style sheet, info, list
\* tables, generator, revision-id table
SkippedDestinations ==
  {KW_fonttbl, KW_colortbl, KW_stylesheet, KW_info, KW_listtable,
   KW_listoverridetable, KW_generator, KW_rsidtbl}

\* the groups of d that are a skipped destination or an ignorable extension
DestinationGroups(d) ==
  {pr \in GroupPairs(d) :
     \/ \E kw \in SkippedDestinations : WholeWordAt(d, kw, pr[1])
     \/ IgnoreGroupAt(d, pr[1])}

\* C4: no character that lies inside a skipped destination or inside an
\* ignorable-extension group, up to its matching closing brace, appears in the
\* text of a text run.
C4_DestinationIsolation == Isolated(DestinationGroups(data))

\* the groups of d that are a footnote, header, footer or picture destination:
\* the group that follows the keyword, or the group the keyword opens
SpecialGroups(d) ==
  {pr \in GroupPairs(d) :
     \E n \in DOMAIN special_keywords :
       LET kw == special_keywords[n][1]
       IN  \/ WholeWordAt(d, kw, pr[1] + 1)
           \/ \E t \in TokenStarts(d, 0) :
                /\ WholeWordAt(d, kw, t)
                /\ RunEnd(d, t + Len(kw), {" ", "\n", "\r", "\t"}) = pr[1]}

\* C5: no character that lies inside a footnote, header, footer or picture
\* destination, written \keyword{...} or {\keyword ...}, is part of the text
\* of an ordinary text run.
C5_SpecialBlockSeparation == Isolated(SpecialGroups(data))

\* the uses of a special-content keyword that a group follows:
\* << offset of the keyword, its index in special_keywords, the group >>
SpecialUses(d) ==
  {u \in TokenStarts(d, 0) \X (DOMAIN special_keywords) \X GroupPairs(d) :
     LET kw == special_keywords[u[2]][1]
     IN  /\ WholeWordAt(d, kw, u[1])
         /\ RunEnd(d, u[1] + Len(kw), {" ", "\n", "\r", "\t"}) = u[3][1]}

\* offset t lies strictly inside one of the groups
Inside(t, groups) == \E pr \in groups : pr[1] < t /\ t < pr[2]

\* C6: once the document is parsed, every footnote, header, footer or picture
\* keyword of the body that a group follows has exactly one special-block
\* event; the event has the keyword's kind, its text is the raw text strictly
\* between the group's braces, its char_start is the offset of the opening
\* brace, its char_end the offset just past the matching closing brace, and
\* its font id and size are those active at the keyword.
C6_SpecialBlockContents ==
  pc = "done" =>
    \A u \in SpecialUses(data) :
      ~Inside(u[1], DestinationGroups(data) \cup {v[3] : v \in SpecialUses(data)}) =>
        LET j == u[3][1]
            q == u[3][2]
            st == StateBefore(u[1])
            ev == {k \in DOMAIN streams :
                     IsSpecial(streams[k]) /\ streams[k].char_start = j}
        IN  /\ Cardinality(ev) = 1
            /\ \A k \in ev :
                 /\ streams[k].type = special_keywords[u[2]][2]
                 /\ streams[k].text = Slice(data, j + 1, q)
                 /\ streams[k].char_end = q + 1
                 /\ streams[k].font.id = st[4][st[3]][st[2]]
                 /\ streams[k].font.size = st[1] \div 2

\* C7: the char_end values of the emitted events, in emission order, never
\* decrease.
C7_CharEndMonotone ==
  \A k \in 1..(Len(streams) - 1) : streams[k].char_end <= streams[k + 1].char_end

\* a text run, a break and a special block were emitted, the last event ending
\* later than the first
C7_Witness ==
  /\ \E k \in DOMAIN streams : IsRun(streams[k])
  /\ \E k \in DOMAIN streams : IsBreak(streams[k])
  /\ \E k \in DOMAIN streams : IsSpecial(streams[k])
  /\ streams[1].char_end < streams[Len(streams)].char_end

\* C8: every emitted event satisfies
\* 0 <= char_start <= char_end <= length of the raw document.
C8_OffsetsInDocument ==
  \A k \in DOMAIN streams :
    /\ 0 <= streams[k].char_start
    /\ streams[k].char_start <= streams[k].char_end
    /\ streams[k].char_end <= Len(data)

\* a special block that the end of the document cuts short was emitted, and
\* the final text run ends at the end of the document
C8_Witness ==
  /\ pc = "done"
  /\ ~WellBalanced(data)
  /\ \E k \in DOMAIN streams :
       IsSpecial(streams[k]) /\ streams[k].char_end = Len(data)
  /\ \E k \in DOMAIN streams :
       IsRun(streams[k]) /\ streams[k].char_end = Len(data)

\* C9: each event's char_start is greater than or equal to the char_end of the
\* event emitted immediately before it.
C9_NoOverlap ==
  \A k \in 1..(Len(streams) - 1) : streams[k + 1].char_start >= streams[k].char_end

\* C10: a font selection \fN that finds text pending emits that text as one
\* run of its own under the font that was active, leaves nothing pending and
\* makes N the active font; one that finds nothing pending emits nothing.  In
\* particular \f1 abc\f2 def with the font table 1 -> A, 2 -> B yields exactly
\* the two runs abc / A and def / B.
C10_RunSplitting ==
  /\ last.op = "font_id" =>
       /\ text_parts = << >>
       /\ get_fid = NumberedArg(data, last.at, KW_f)
       /\ IF last.pend # << >>
          THEN /\ Len(streams) = last.n + 1
               /\ IsRun(streams[last.n + 1])
               /\ streams[last.n + 1].text = last.pend
               /\ streams[last.n + 1].font.id = last.fid
          ELSE Len(streams) = last.n
  /\ (data = Doc_RunSplit /\ pc = "done") =>
       /\ Len(streams) = 2
       /\ IsRun(streams[1]) /\ IsRun(streams[2])
       /\ streams[1].text = <<"a", "b", "c">>
       /\ streams[1].font.name = <<"A">>
       /\ streams[2].text = <<"d", "e", "f">>
       /\ streams[2].font.name = <<"B">>

\* \f2 has just found abc pending under font 1 in \f1 abc\f2 def
C10_Witness ==
  /\ data = Doc_RunSplit
  /\ last.op = "font_id" /\ last.pend = <<"a", "b", "c">> /\ last.fid = 1
  /\ get_fid = 2

\* eff with the slot of the current (directionality, charset) pair set to n
SlotWritten(n) ==
  [d \in DOMAIN eff |->
    [c \in DOMAIN eff[d] |->
      IF d = dirctx /\ c = charset THEN n ELSE eff[d][c]]]

\* C11: a step that handles \fN or \afN writes N to the slot of the current
\* (directionality, charset) pair and leaves the other five slots and the pair
\* unchanged; a step that handles a charset or a directionality control word
\* changes no slot, so the active font id after it is the value the newly
\* current slot already held.
C11_SlotIndependence ==
  [][ /\ At_("font_id") =>
           /\ eff' = SlotWritten(NumberedArg(data, i, KW_f))
           /\ dirctx' = dirctx /\ charset' = charset
      /\ At_("afont") =>
           /\ eff' = SlotWritten(NumberedArg(data, i, KW_af))
           /\ dirctx' = dirctx /\ charset' = charset
      /\ At_("charset") =>
           /\ eff' = eff /\ dirctx' = dirctx
           /\ charset' = CharsetArg(data, i)
           /\ get_fid' = eff[dirctx][CharsetArg(data, i)]
      /\ At_("dirctx") =>
           /\ eff' = eff /\ charset' = charset
           /\ dirctx' = DirctxArg(data, i)
           /\ get_fid' = eff[DirctxArg(data, i)][charset]
    ]_vars

\* font 1 was selected in the (ltrch, loch) context and the charset was then
\* switched to hich, whose slot was never written: the active font id is 0
C11_Witness ==
  /\ last.op = "charset"
  /\ charset = "hich" /\ dirctx = "ltrch"
  /\ eff["ltrch"]["loch"] = 1
  /\ get_fid = 0

\* C12: a step that handles \{ , \} or \\ leaves the scope stack unchanged and
\* adds exactly one character, the escaped one, to the pending text: the
\* pending text is extended by it or, when formatting control words follow the
\* symbol, is flushed and restarted with it.  The document {\{\}\\} yields the
\* single text run {}\ .
C12_LiteralEscapes ==
  [][ /\ At_("escaped") =>
           /\ stack' = stack
           /\ \/ /\ text_parts' = Append(text_parts, At(data, i + 1))
                 /\ streams' = streams
              \/ /\ text_parts' = << At(data, i + 1) >>
                 /\ streams' = FlushedStreams(i)
      /\ (data = Doc_LiteralEscapes /\ pc' = "done") =>
           /\ Len(streams') = 1
           /\ IsRun(streams'[1])
           /\ streams'[1].text = << "{", "}", "\\" >>
    ]_vars

\* the three escaped symbols of {\{\}\\} were read inside the open group and
\* the group was closed
C12_Witness ==
  /\ data = Doc_LiteralEscapes
  /\ pc = "done"
  /\ Len(streams) = 1
  /\ stack = << >>

\* the offsets at which the scan loop handled an iteration of branch b
HandledAt(b) ==
  {o \in 0..(Len(snap) - 1) : snap[o + 1][3] = b /\ snap[o + 1][4] = o}

\* the character ch, read at offset o, is in the text of an emitted text run
InRunText(o, ch) ==
  \E k \in DOMAIN streams :
    /\ IsRun(streams[k])
    /\ \E n \in DOMAIN runs_g[k] :
         /\ runs_g[k][n][1] = o
         /\ n \in DOMAIN streams[k].text
         /\ streams[k].text[n] = ch

\* C13: once the document is parsed, every hex escape \'HH of the body text
\* has put the character with code point 0xHH, at its position, in the text of
\* an emitted text run.
C13_HexEscape ==
  pc = "done" =>
    \A o \in HandledAt("hex") :
      InRunText(o, Chr(16 * HexVal(At(data, o + 2)) + HexVal(At(data, o + 3))))

\* the character the escape \uN stands for: the code point N + 65536 for a
\* negative N (-32768..-1 give 32768..65535), the code point N otherwise, and
\* ? when that is no code point
Signed16Char(n) ==
  IF n >= -65536 /\ n <= -1 THEN Chr(n + 65536)
  ELSE IF n >= 0 /\ n <= 1114111 THEN Chr(n)
  ELSE "?"

\* C14: a step that handles \uN appends exactly the character of N taken as a
\* 16-bit signed quantity (? when the value is no code point) to the pending
\* text and goes on; \u9 appends TAB and \u-1? appends U+FFFF, and both are in
\* the text of the run the document ends with.
C14_UnicodeValue ==
  [][ /\ At_("unicode") =>
           /\ text_parts' = Append(text_parts, Signed16Char(UnicodeArg(data, i)))
           /\ pc' = "scan"
      /\ (data = Doc_Unicode /\ pc' = "done") =>
           /\ Len(streams') = 1
           /\ streams'[1].text =
                << "\t", "U+65535", "U+32768", "U+65535", "?", "?", "x" >>
    ]_vars

\* the six escapes of the unicode document were handled, the last one with a
\* value that is no code point
C14_Witness ==
  /\ data = Doc_Unicode
  /\ pc = "done"
  /\ Cardinality(HandledAt("unicode")) = 6
  /\ InRunText(32, "?")

\* the end of the fallback token of the escape \uN at offset o: a hex pair
\* \'HH or one character (none when a control word, an escaped symbol or a
\* brace follows, or the document ends)
FallbackEnd(d, o) ==
  LET e == RunEnd(d, UnicodeDigitsStart(d, o), Digits)
  IN  IF RE_HEX_CHAR(d, e) # NoMatch THEN e + 4
      ELSE IF e < Len(d) /\ At(d, e) \notin {"\\", "{", "}"} THEN e + 1
      ELSE e

\* C15: once the document is parsed, no character of a text run was read from
\* the fallback token that follows an escape \uN.
C15_UnicodeFallback ==
  pc = "done" =>
    \A o \in HandledAt("unicode") :
      \A p \in RunOffsets : ~(o < p /\ p < FallbackEnd(data, o))

\* C16: a step that handles a closing brace while the scope stack is empty
\* leaves the font size, the charset context, the directionality context and
\* the six effective-font slots unchanged, leaves the stack empty, and the
\* scan goes on with the next character.
C16_EmptyStackClose ==
  [][ (At_("close") /\ stack = << >>) =>
        /\ State' = State
        /\ stack' = << >>
        /\ i' = i + 1
        /\ pc' = "scan"
    ]_vars

\* a closing brace was handled in a document without any opening brace, after
\* the font size had been set to 20 half-points
C16_Witness ==
  /\ last.op = "close"
  /\ \A k \in 0..(Len(data) - 1) : At(data, k) # "{"
  /\ font_size = 20

\* C17: every iteration of the scan loop strictly increases the scan position
\* and stays within the document, and every parse reaches the end of the
\* input, where the final flush leaves the pending text emitted and parse_file
\* returns.
C17_Termination ==
  /\ [][ (pc = "scan" /\ pc' = "scan") => (i' > i /\ i' <= Len(data)) ]_vars
  /\ [][ pc' = "done" =>
           /\ pc = "scan" /\ i = Len(data)
           /\ streams' = FlushedStreams(Len(data)) ]_vars
  /\ <>[](pc = "done")

\* the parse of an unbalanced document with a stray backslash has returned
C17_Witness ==
  /\ pc = "done"
  /\ ~WellBalanced(data)
  /\ HandledAt("backslash") # {}

\* C18: whatever the object parsed before, parse_file enters the scan loop in
\* the state a new object enters it with for the same document: the format and
\* the font table are those of the document alone, no event is there, the
\* scope stack and the pending text are empty, the formatting state is the
\* default one; and the font table it returns with is that of the document
\* alone.  (The scan loop reads nothing else, so the events are the same.)
C18_NoCrossDocumentState ==
  [][ /\ (pc # "scan" /\ pc' = "scan") =>
           /\ format' = detect_rtf_format(data')
           /\ fonts' = parse_font_table(data', detect_rtf_format(data'))
           /\ font_map' = FontMapOf(fonts')
           /\ streams' = << >> /\ stack' = << >> /\ text_parts' = << >>
           /\ State' = << DefaultFontSize, "loch", "ltrch", EffInit >>
           /\ i' = 0 /\ char_start' = 0 /\ char_end' = 0
      /\ pc' = "done" =>
           /\ fonts' = parse_font_table(data', detect_rtf_format(data'))
           /\ font_map' = FontMapOf(fonts')
    ]_vars

\* the object has parsed a second document, one without a font table that
\* yields events
C18_Witness ==
  /\ parses = 2
  /\ pc = "done"
  /\ Find(data, KW_fonttbl) = NoMatch
  /\ fonts = << >>
  /\ streams # << >>

\* get_colors()
get_colors == colors

\* text.split(c): the pieces of text between the occurrences of c
RECURSIVE SplitOn(_, _, _, _)
SplitOn(text, c, k, piece) ==
  IF k >= Len(text) THEN << piece >>
  ELSE IF At(text, k) = c THEN << piece >> \o SplitOn(text, c, k + 1, << >>)
  ELSE SplitOn(text, c, k + 1, Append(piece, At(text, k)))

\* re.search(kw(\d+), entry): the number after the first kw that digits
\* follow, NoMatch when there is none
SearchNumber(entry, kw) ==
  LET hits == {k \in 0..Len(entry) :
                 StartsWith(entry, kw, k) /\ At(entry, k + Len(kw)) \in Digits}
      k0 == CHOOSE k \in hits : \A h \in hits : k <= h
  IN  IF hits = {} THEN NoMatch
      ELSE ParseInt(entry, k0 + Len(kw), RunEnd(entry, k0 + Len(kw), Digits))

\* the entries of a color table that carry a red, green or blue value, in
\* table order, a missing value being 0
RECURSIVE ColorEntries(_)
ColorEntries(entries) ==
  IF entries = << >> THEN << >>
  ELSE LET r == SearchNumber(Head(entries), <<"\\", "r", "e", "d">>)
           g == SearchNumber(Head(entries), <<"\\", "g", "r", "e", "e", "n">>)
           b == SearchNumber(Head(entries), <<"\\", "b", "l", "u", "e">>)
           Val(v) == IF v = NoMatch THEN 0 ELSE v
       IN  (IF r = NoMatch /\ g = NoMatch /\ b = NoMatch THEN << >>
            ELSE << [red |-> Val(r), green |-> Val(g), blue |-> Val(b)] >>)
           \o ColorEntries(Tail(entries))

\* the colors of the color table of document d
ColorTableOf(d) ==
  LET start == Find(d, KW_colortbl)
      e == BraceScan(d, start + Len(KW_colortbl), 1)
  IN  ColorEntries(SplitOn(Slice(d, start + Len(KW_colortbl), e - 1), ";", 0, << >>))

\* C19: after a document that contains a color table is parsed, get_colors()
\* returns one red/green/blue entry for each entry of the table, split at ; ,
\* that has at least one of \red, \green, \blue, in table order.
C19_ColorTable ==
  (pc = "done" /\ Find(data, KW_colortbl) # NoMatch) =>
    get_colors = ColorTableOf(data)

\* the literal text of a font-table entry from offset k up to its ; : the
\* control words and the nested groups are left out
RECURSIVE LiteralName(_, _)
LiteralName(entry, k) ==
  IF k >= Len(entry) \/ At(entry, k) \in {";", "}"} THEN << >>
  ELSE IF At(entry, k) = "{" THEN LiteralName(entry, BraceScan(entry, k + 1, 1))
  ELSE IF RE_CONTROL_WORD(entry, k) # NoMatch
       THEN LiteralName(entry, RE_CONTROL_WORD(entry, k))
  ELSE << At(entry, k) >> \o LiteralName(entry, k + 1)

\* the top-level entries of the font table of document d
FontTableEntries(d) ==
  LET start == Find(d, KW_fonttbl)
      body == Slice(d, start + Len(KW_fonttbl), BraceScan(d, start + Len(KW_fonttbl), 1) - 1)
      tops == {pr \in GroupPairs(body) : ~Inside(pr[1], GroupPairs(body))}
  IN  IF start = NoMatch THEN {}
      ELSE {Slice(body, pr[1], pr[2] + 1) : pr \in tops}

\* the id N of an entry {\fN ...}, NoMatch for another entry
EntryFontId(entry) ==
  IF StartsWith(entry, KW_entry_f, 0) /\ At(entry, 3) \in Digits
  THEN ParseInt(entry, 3, RunEnd(entry, 3, Digits))
  ELSE NoMatch

\* C20: once the document is parsed, the font table maps the id N of every
\* top-level entry {\fN ... NAME;} (N in one entry only, NAME not empty) to
\* exactly NAME, the literal text of the entry before its ; without the control
\* words and the nested groups; and every font of the table comes from an
\* entry that has a font-id control word.
C20_FontTable ==
  pc = "done" =>
    LET entries == FontTableEntries(data)
    IN  /\ \A e \in entries :
             LET name == Strip(LiteralName(e, 1))
             IN  ( /\ EntryFontId(e) # NoMatch
                   /\ name # << >>
                   /\ \A o \in entries : EntryFontId(o) = EntryFontId(e) => o = e )
                 => /\ EntryFontId(e) \in DOMAIN font_map
                    /\ font_map[EntryFontId(e)] = name
        /\ \A n \in DOMAIN fonts :
             \E e \in entries :
               /\ EntryIdAt(e, TRUE) # NoMatch
               /\ ParseInt(e, EntryIdAt(e, TRUE), RunEnd(e, EntryIdAt(e, TRUE), Digits))
                    = fonts[n].id

\* C21: empty streams are filtered: every emitted stream that carries a text
\* (text runs and special blocks alike) has a text of at least one character,
\* and the text of a text run holds no carriage return and no line feed.
C21_EmptyStreamsFiltered ==
  \A n \in DOMAIN streams :
    "text" \in DOMAIN streams[n] =>
      /\ Len(streams[n].text) >= 1
      /\ IsRun(streams[n]) =>
           \A k \in DOMAIN streams[n].text : streams[n].text[k] \notin {"\r", "\n"}

\* the branches of the four structural breaks, with the type each one emits
BreakBranches ==
  << <<"par", "par_break", KW_par>>, <<"line", "line_break", KW_line>>,
     <<"cell", "cell_break", KW_cell>>, <<"row", "row_break", KW_row>> >>

NumBreaks(ss) == Len(SelectSeq(ss, IsBreak))

\* C22: at \par, \line, \cell or \row that no letter follows, the scan first
\* emits the pending text (if any is left after cleaning) as a text run, then
\* exactly one event of the type par_break, line_break, cell_break, row_break
\* respectively, and starts the next run after the control word; at a longer
\* keyword that shares the prefix the iteration emits no break event.
C22_StructuralBreaks ==
  [][ \A n \in DOMAIN BreakBranches :
        LET kw == BreakBranches[n][3]
            whole == /\ pc = "scan" /\ StartsWith(data, kw, i)
                     /\ At(data, i + Len(kw)) \notin Letters
            longer == /\ pc = "scan" /\ StartsWith(data, kw, i)
                      /\ At(data, i + Len(kw)) \in Letters
            pend == clean_text(text_parts)
            brk == streams'[Len(streams')]
        IN  /\ whole =>
                 /\ Len(streams') = Len(streams) + (IF pend = << >> THEN 1 ELSE 2)
                 /\ SubSeq(streams', 1, Len(streams)) = streams
                 /\ brk = [type |-> BreakBranches[n][2], char_start |-> i, char_end |-> i']
                 /\ pend # << >> =>
                      LET run == streams'[Len(streams') - 1]
                      IN  /\ IsRun(run) /\ run.text = pend
                          /\ run.font.id = get_fid /\ run.char_end = i
                 /\ text_parts' = << >> /\ char_start' = i'
                 /\ i' >= i + Len(kw)
            /\ longer => NumBreaks(streams') = NumBreaks(streams) ]_vars

\* a line break was emitted after pending text, and the scan had passed a
\* longer keyword (\cellx) before
C22_Witness ==
  /\ last.op = "line" /\ last.pend # << >>
  /\ Len(streams) = last.n + 2
  /\ \E o \in DOMAIN snap : snap[o][3] = "control_word" /\ StartsWith(data, KW_cell, snap[o][4])

\* one of the five formatting control words matches at offset j
FormatWordAt(d, j) ==
  \/ RE_DIRCTX(d, j) # NoMatch \/ RE_CHARSET(d, j) # NoMatch
  \/ RE_AFONT(d, j) # NoMatch \/ RE_FONT_ID(d, j) # NoMatch
  \/ RE_FONT_SIZE(d, j) # NoMatch

\* the state << font_size, charset, dirctx, eff >> after the formatting control
\* word at offset j is applied to the state st, as its own handler applies it
WordApplied(d, j, st) ==
  IF RE_DIRCTX(d, j) # NoMatch THEN << st[1], st[2], DirctxArg(d, j), st[4] >>
  ELSE IF RE_CHARSET(d, j) # NoMatch THEN << st[1], CharsetArg(d, j), st[3], st[4] >>
  ELSE IF RE_AFONT(d, j) # NoMatch
    THEN << st[1], st[2], st[3], [st[4] EXCEPT ![st[3]][st[2]] = NumberedArg(d, j, KW_af)] >>
  ELSE IF RE_FONT_ID(d, j) # NoMatch
    THEN << st[1], st[2], st[3], [st[4] EXCEPT ![st[3]][st[2]] = NumberedArg(d, j, KW_f)] >>
  ELSE << NumberedArg(d, j, KW_fs), st[2], st[3], st[4] >>

\* where the formatting control word at offset j ends
WordEnd(d, j) ==
  IF RE_DIRCTX(d, j) # NoMatch THEN RE_DIRCTX(d, j)
  ELSE IF RE_CHARSET(d, j) # NoMatch THEN RE_CHARSET(d, j)
  ELSE IF RE_AFONT(d, j) # NoMatch THEN RE_AFONT(d, j)
  ELSE IF RE_FONT_ID(d, j) # NoMatch THEN RE_FONT_ID(d, j)
  ELSE RE_FONT_SIZE(d, j)

\* << state, offset >> after all the formatting control words that follow
\* one another from offset j on are applied to st, in document order
RECURSIVE WordsApplied(_, _, _)
WordsApplied(d, j, st) ==
  IF FormatWordAt(d, j) THEN WordsApplied(d, WordEnd(d, j), WordApplied(d, j, st))
  ELSE << st, j >>

\* C23: when formatting control words follow \{ \} or \\ immediately, the
\* pending text is flushed once under the state in force before them (a run
\* that ends at the escape), all of them are applied, in document order, and
\* the literal character is the first character of a new run whose char_start
\* is the offset of the escape; that run, once emitted, starts at the escape
\* and carries the font id and size of the resulting state.
C23_EscapedLookAhead ==
  /\ [][ (At_("escaped") /\ FormatWordAt(data, i + 2)) =>
           LET pend == clean_text(text_parts)
               res == WordsApplied(data, i + 2, State)
           IN  /\ streams' = IF pend = << >> THEN streams
                             ELSE Append(streams,
                                    [ text |-> pend,
                                      font |-> [id |-> get_fid,
                                                name |-> FontName(font_map, get_fid),
                                                size |-> font_size \div 2],
                                      char_start |-> char_start, char_end |-> i ])
               /\ State' = res[1]
               /\ i' = res[2]
               /\ text_parts' = << At(data, i + 1) >>
               /\ char_start' = i
               /\ stack' = stack ]_vars
  /\ [](pc = "done" =>
          \A o \in HandledAt("escaped") :
            FormatWordAt(data, o + 2) =>
              \E n \in DOMAIN streams :
                /\ IsRun(streams[n])
                /\ streams[n].char_start = o
                /\ streams[n].text[1] = At(data, o + 1)
                /\ LET st == snap[o + 1][2]
                   IN  /\ streams[n].font.id = st[4][st[3]][st[2]]
                       /\ streams[n].font.size = st[1] \div 2)

\* an escaped literal with pending text before it and a font change after
\* it: the pending text was flushed and the literal is alone in the buffer
C23_Witness ==
  /\ last.op = "escaped" /\ last.pend # << >>
  /\ Len(streams) = last.n + 1
  /\ get_fid # last.fid
  /\ Len(text_parts) = 1 /\ char_start = last.at

\* the scope stack depth, the pending text and the number of events before
\* and after the iteration that consumed offset k
RestBefore(k) == snap[k + 1][5]
RestAfter(k) == snap[k + 1][6]

\* C24: skipping a metadata destination or an ignorable-extension group
\* changes nothing but the scan position: when the scan stands at the opening
\* brace of such a group, then right after the group's matching closing brace
\* the font size, charset context, directionality context, effective-font
\* map, scope stack depth and pending text are what they were at the opening
\* brace, and no event was emitted in between.
C24_SkipFrame ==
  \A pr \in DestinationGroups(data) :
    (pr[2] < Len(snap) /\ snap[pr[1] + 1][4] = pr[1]) =>
      /\ snap[pr[1] + 1][3] \in {"skip_section", "ignore_group"}
      /\ StateAfter(pr[2]) = StateBefore(pr[1])
      /\ RestAfter(pr[2]) = RestBefore(pr[1])

\* the branches that call text_parts.append
BufferingBranches == {"unicode", "nbsp", "escaped", "hex", "char"}

\* the characters appended to the pending buffer by the iterations that
\* consumed the offsets k .. Len(snap) - 1, in document order
RECURSIVE AppendedFrom(_)
AppendedFrom(k) ==
  IF k >= Len(snap) THEN << >>
  ELSE IF snap[k + 1][4] = k /\ snap[k + 1][3] \in BufferingBranches
       THEN << RestAfter(k)[2][Len(RestAfter(k)[2])] >> \o AppendedFrom(k + 1)
       ELSE AppendedFrom(k + 1)

RECURSIVE Concat(_)
Concat(ss) == IF ss = << >> THEN << >> ELSE Head(ss) \o Concat(Tail(ss))

\* the texts of the text runs, concatenated in emission order
RunsText == Concat([n \in DOMAIN TextRuns |-> TextRuns[n].text])

NoLineEnds(text) == SelectSeq(text, LAMBDA c : c # "\r" /\ c # "\n")

\* C25: no buffered text is lost: the texts of the text runs, concatenated in
\* emission order (followed, while the scan is running, by what is still
\* pending), are exactly the characters appended to the pending buffer so
\* far, in document order, without the carriage returns and line feeds.
C25_NoTextLost ==
  /\ pc = "scan" => RunsText \o NoLineEnds(text_parts) = NoLineEnds(AppendedFrom(0))
  /\ pc = "done" => RunsText = NoLineEnds(AppendedFrom(0))

\* a finished parse with at least three text runs, a closing brace, a flush
\* by a control word, and a line feed among the appended characters
C25_Witness ==
  /\ pc = "done" /\ Len(TextRuns) >= 3
  /\ HandledAt("close") # {} /\ HandledAt("font_id") # {}
  /\ \E k \in DOMAIN AppendedFrom(0) : AppendedFrom(0)[k] = "\n"
  /\ Len(RunsText) + 1 = Len(AppendedFrom(0))

\* where the control word \<letters><optional signed digits> at offset k ends,
\* the one blank that delimits it included
ControlWordEnd(d, k) ==
  LET l == RunEnd(d, k + 1, Letters)
      s == IF At(d, l) = "-" /\ At(d, l + 1) \in Digits THEN l + 1 ELSE l
  IN  OptWs(d, RunEnd(d, s, Digits))

\* C26: an unrecognized control word \<letters><optional signed digits> is
\* consumed and discarded: the iteration that meets it changes no formatting
\* state, leaves the scope stack, the events and the pending text as they
\* are, does not flush, and continues right after the control word, so that
\* the text before and after it is in the same run.
C26_UnrecognizedControlWord ==
  [][ At_("control_word") =>
        /\ State' = State /\ stack' = stack
        /\ streams' = streams
        /\ text_parts' = text_parts /\ char_start' = char_start
        /\ i' = ControlWordEnd(data, i) ]_vars

\* C27: runs are maximal: two text runs that are adjacent in the event list,
\* with no break and no special block between them, differ in the font id or
\* in the size.
C27_RunsMaximal ==
  \A n \in 1..(Len(streams) - 1) :
    (IsRun(streams[n]) /\ IsRun(streams[n + 1])) =>
      \/ streams[n].font.id # streams[n + 1].font.id
      \/ streams[n].font.size # streams[n + 1].font.size

\* the text at offset k begins with the keyword kw, and the control word goes
\* on after it with a letter or a digit
LongerWordAt(d, kw, k) ==
  StartsWith(d, kw, k) /\ At(d, k + Len(kw)) \in (Letters \cup Digits)

\* C28: keywords are matched whole. At a group that opens with a control word
\* that merely begins with a destination keyword ({\headery ...}) the scan
\* opens an ordinary scope and goes on inside the group; at a control word
\* that merely begins with a special keyword (\footerx) it emits no special
\* block and discards the control word as a whole. The text of the groups of
\* {\headery t}\footerx{u} reaches the text runs.
C28_WholeKeywords ==
  /\ [][ (pc = "scan" /\ \E n \in DOMAIN skip_sections :
                           LongerWordAt(data, skip_sections[n], i)) =>
           /\ stack' = Append(stack, State)
           /\ i' = i + 1
           /\ streams' = streams ]_vars
  /\ [][ (pc = "scan" /\ \E n \in DOMAIN special_keywords :
                           LongerWordAt(data, special_keywords[n][1], i)) =>
           /\ streams' = streams /\ text_parts' = text_parts
           /\ i' = ControlWordEnd(data, i) ]_vars
  /\ []((pc = "done" /\ data = Doc_LongKeyword) =>
          [n \in DOMAIN TextRuns |-> TextRuns[n].text] = << <<"t">>, <<"u">> >>)

\* C29: the older parser tolerates structurally malformed markup too: no
\* document, in particular none with a closing brace that closes no scope and
\* none that ends right after {\ , makes parse_file raise, and the scan goes
\* on to the end of the input.
C29_OldParserTolerates ==
  /\ old.pc # "raised"
  /\ old.pc = "done" => old.i = Len(old.data)

\* the offsets of text at which a line feed stands directly between a
\* character of the set before and a character of the set after
BreaksBetween(text, before, after) ==
  {k \in 1..(Len(text) - 2) :
     text[k] \in before /\ text[k + 1] = "\n" /\ text[k + 2] \in after}

\* how many line feeds of text stand directly after a shad or a tseg
BreaksAfterMark(text) ==
  Cardinality({k \in 1..(Len(text) - 1) :
                 text[k] \in {TIBETAN_SHED, TIBETAN_TSEG} /\ text[k + 1] = "\n"})

\* C30: fix_flying_vowels_and_linebreaks applies the mid-word-break fix with
\* the other fixes: its result has no line feed left that separates a
\* consonant, a subscript or a vowel sign from a base consonant when its
\* argument had one, and every line feed that follows a shad or a tseg is
\* still there.
C30_MidWordBreaksJoined ==
  fix.op = "fix_flying_vowels_and_linebreaks" =>
    /\ BreaksBetween(fix.text, TibetanLetters, TIBETAN_CONSONANTS) # {} =>
         Len(fix.result) < Len(fix.text)
    /\ BreaksAfterMark(fix.result) = BreaksAfterMark(fix.text)
====
